---------------------------- MODULE Spec2Model ----------------------------
(***************************************************************************)
(* Model of the AIoT smart attendance / door lock repository.              *)
(*                                                                         *)
(*   door_system.py   ConnectionManager, DoorSystem (run, handle_motion),  *)
(*                    save_attendance, live_camera_attendance              *)
(*   door.py          DoorSystem (handle_motion), save_attendance          *)
(*   attendance/services/face_recognition_service.py                       *)
(*                    load_registered_faces, recognize_face                *)
(*   attendance/views.py   toggle_student_status, delete_student           *)
(*                                                                         *)
(* Conventions.  Face embeddings are points on a line, in hundredths, so   *)
(* that the Euclidean distance is exactly the absolute difference; the     *)
(* tolerance 0.5 is 50 and a confidence of 1 - distance is 100 - distance. *)
(* Time is in whole seconds; the calendar day of a timestamp is its        *)
(* quotient by SecondsPerDay (timezone.now().date() and the                *)
(* timestamp__date lookup are taken in one and the same time zone).        *)
(***************************************************************************)
EXTENDS Integers, Sequences, FiniteSets, TLC

\* ------------------------------------------------------------------ bounds
NumStudents == 2
MaxQueued == 2
MaxCalls == 3
SecondsBefore == 15
SecondsAfter == 30

\* ------------------------------------------------------- program constants
RECOGNITION_TOLERANCE == 50
RECOGNITION_ATTEMPTS == 3
MAX_RECONNECT_ATTEMPTS == 3
CONNECTION_CHECK_INTERVAL == 3
ATTENDANCE_COOLDOWN == 30
MIN_CONFIDENCE == 45
DEFAULT_TOLERANCE == 60
min_face_size == 100
SecondsPerDay == 86400

Students == 1..NumStudents
None == 0

\* The enrollment embedding stored for a student.
Embedding(s) == 100 * s

\* The embeddings a camera frame's face may have: exact matches, the point
\* halfway between two students (a tie), and points at distance tolerance
\* and tolerance + 1 from the first student.
Queries == {Embedding(s) : s \in Students}
              \cup {Embedding(1) - RECOGNITION_TOLERANCE,
                    Embedding(1) - RECOGNITION_TOLERANCE - 1,
                    Embedding(1) + RECOGNITION_TOLERANCE}

\* The face_encoding blob stored for a student at enrollment: whether the
\* JSON decodes, and the n encodings it decodes to, spread around their mean.
StoredEncodings(s, n) ==
    [ok |-> TRUE,
     encs |-> [i \in 1..n |-> Embedding(s) + (2 * i - n - 1) * 10]]

\* The library call of recognize_face that raises on a frame, if any: the
\* colour conversion, face_locations, face_encodings or face_distance.
FaultStages == {"none", "convert", "detect", "encode", "match"}

\* The embeddings of the frames recognize_face is called on by itself: those
\* above, a point nearer the second student with the first still within
\* the default tolerance, and points at distance DEFAULT_TOLERANCE and
\* DEFAULT_TOLERANCE + 1 from the first student.
AllQueries ==
    Queries \cup {Embedding(1) + RECOGNITION_TOLERANCE + 5,
                  Embedding(1) - DEFAULT_TOLERANCE,
                  Embedding(1) - DEFAULT_TOLERANCE - 1}

\* What a frame yields to the library calls of recognize_face: the call
\* that raises, whether face_locations finds a face, the
\* width and height of the largest face, whether face_encodings returns an
\* encoding, and that encoding.
Frame(fault, face, width, height, encodable, q) ==
    [fault |-> fault, face |-> face, width |-> width, height |-> height,
     encodable |-> encodable, q |-> q]

\* Face sizes on either side of the minimum.
FaceSizes == {min_face_size - 1, min_face_size}

\* Every combination of what a frame can yield.
AllFrames ==
    [fault : FaultStages, face : BOOLEAN, width : FaceSizes,
     height : FaceSizes, encodable : BOOLEAN, q : AllQueries]

\* The frames of a door session: no face, a face too small, a face without
\* an encoding, a frame the conversion rejects, and good faces.
NoFaceFrame == Frame("none", FALSE, min_face_size, min_face_size, TRUE, 0)
Frames ==
    {NoFaceFrame,
     Frame("none", TRUE, min_face_size - 1, min_face_size, TRUE, 0),
     Frame("none", TRUE, min_face_size, min_face_size, FALSE, 0),
     Frame("convert", FALSE, min_face_size, min_face_size, TRUE, 0)}
        \cup {Frame("none", TRUE, min_face_size, min_face_size, TRUE, q) :
                 q \in Queries}

Day(t) == t \div SecondsPerDay

\* The clock runs over a window around one midnight.
StartTime == SecondsPerDay - SecondsBefore
EndTime == SecondsPerDay + SecondsAfter
ClockSteps == {ATTENDANCE_COOLDOWN \div 2, ATTENDANCE_COOLDOWN}

VARIABLES
    script,           \* which script runs the door session: "door_system" or "door"
    state,            \* the session's state (AccessController state of the spec)
    camera,           \* camera handle: "none" or "open"
    camera_ok,        \* ConnectionManager.camera_ok
    arduino,          \* controller handle: "none" or "open"
    arduino_ok,       \* ConnectionManager.arduino_ok
    attempt,          \* handle_motion: loop index of the attempt about to run
    recognized,       \* handle_motion: recognized_student / student (None = 0)
    last_frame,       \* handle_motion: last_frame (door_system) / frame (door)
    trace,            \* the effects of the motion event in progress or just ended
    known_students,   \* the door session's service cache (gallery), in order
    web_known_students, \* the web process's singleton service cache
    students,         \* identity store: id -> "active" | "inactive" | "absent"
    attendance,       \* attendance store: set of rows
    now,              \* wall clock, seconds
    today,            \* live_camera_attendance: today, computed at start-up
    recent_attendance, \* live_camera_attendance: student -> last time handled
    detected_face,    \* live_camera_attendance: the entry last appended to
                      \* detected_faces
    live,             \* live_camera_attendance: "off" | "running"
    last_seen,        \* history: student -> time of its latest match in a tick
    repeat_match,     \* history: the face just handled matched a student that
                      \* had matched less than ATTENDANCE_COOLDOWN seconds before
    save_calls,       \* history: the last two calls of save_attendance
    shutdown,         \* the effects of cleanup, in code order
    pending,          \* run: the devices of errors still to be reconnected
    reconnect_attempt, \* attempt_reconnect: loop index of the attempt about to run
    pause_trace,      \* the effects of the latest periodic connection check
    face_encoding,    \* identity store: id -> the stored face_encoding blob
    known_face_encodings, \* a service instance followed step by step:
    known_face_names,     \* its four cache lists (known_student_objs is
    known_face_ids,       \* the list the code calls known_students)
    known_student_objs,
    load_pc,          \* load_registered_faces: the statement about to run
    load_queue,       \* load_registered_faces: the students still to visit
    load_ret,         \* load_registered_faces: the value last returned
    reports,          \* load_registered_faces: the 'Error loading' lines printed
    old_cache,        \* history: the four lists when the reload in progress
                      \* began
    observed,         \* history: what the latest recognition read of the
                      \* lists during the reload in progress
    image,            \* recognize_face: the frame of the latest call
    self_tolerance,   \* FaceRecognitionService.tolerance (self.tolerance)
    last_result,      \* recognize_face: the result of the latest call
    serial_in,        \* the controller's serial input buffer: the lines
                      \* received, the last one possibly without its newline
    last_call,        \* history: the latest ConnectionManager call
    last_ok,          \* history: device -> whether the latest connect, probe
                      \* or I/O operation on it succeeded
    total_recognitions,      \* FaceRecognitionService.total_recognitions
    successful_recognitions, \* FaceRecognitionService.successful_recognitions
    last_recognition_time,   \* FaceRecognitionService.last_recognition_time
    simulation,       \* the session is a DoorSystemSimulation (keyboard trigger)
    system_log,       \* the message of the newest SystemLog row, followed in
                      \* simulation mode, whose run is its only reader
    banner,           \* DoorSystemSimulation.run: last_result
    loop,             \* the frame loop that runs: "none", "simulation",
                      \* "quick_test", "live_view" or "live_attendance"
    since_check       \* milliseconds since last_check_time /
                      \* last_connection_check was set

doorVars == <<script, state, camera, camera_ok, arduino, arduino_ok, attempt,
              recognized, last_frame, trace, known_students>>
storeVars == <<students, attendance, web_known_students>>
liveVars == <<today, recent_attendance, detected_face, live, last_seen,
             repeat_match>>
modeVars == <<simulation, loop, since_check>>
simVars == <<modeVars, system_log, banner>>
connVars == <<shutdown, pending, reconnect_attempt, pause_trace, simVars>>
recVars == <<image, self_tolerance, last_result, total_recognitions,
             successful_recognitions, last_recognition_time>>
devVars == <<serial_in, last_call, last_ok>>
svcVars == <<face_encoding, known_face_encodings, known_face_names,
             known_face_ids, known_student_objs, load_pc, load_queue, load_ret,
             reports, old_cache, observed, recVars, devVars>>
vars == <<doorVars, storeVars, liveVars, now, save_calls, connVars, svcVars>>

\* ------------------------------------------------------------- helpers

\* One effect of a motion event.  dist is the best gallery distance of a
\* recognition, 0 for every other effect.
Ev(op, cmd, student, ok) ==
    [op |-> op, cmd |-> cmd, student |-> student, ok |-> ok, dist |-> 0]

Abs(x) == IF x < 0 THEN -x ELSE x

\* face_recognition.face_distance for one pair of embeddings.
face_distance(a, b) == Abs(a - b)

\* An argmin returning the last index at which the minimum is attained.
argmin_last(ds) ==
    CHOOSE i \in 1..Len(ds) :
        /\ \A j \in 1..Len(ds) : ds[i] <= ds[j]
        /\ \A j \in (i + 1)..Len(ds) : ds[j] > ds[i]

\* np.argmin: the first index at which the minimum is attained.
argmin(ds) ==
    CHOOSE i \in 1..Len(ds) :
        /\ \A j \in 1..Len(ds) : ds[i] <= ds[j]
        /\ \A j \in 1..(i - 1) : ds[j] > ds[i]

\* Student.objects.filter(is_active=True), in store order.
ActiveStudents(st) ==
    SelectSeq([i \in 1..NumStudents |-> i], LAMBDA i : st[i] = "active")

\* FaceRecognitionService.load_registered_faces, as one step: the cache is
\* cleared and one entry is appended per active student whose blob decodes
\* to a non-empty list.
load_registered_faces(st) ==
    SelectSeq(ActiveStudents(st),
              LAMBDA s : face_encoding[s].ok /\ face_encoding[s].encs # <<>>)


\* The four cache lists of a service instance as one value.
Cache(encodings, names, ids, objs) ==
    [encodings |-> encodings, names |-> names, ids |-> ids, students |-> objs]

\* The lists as __init__ leaves them.
EmptyCache == Cache(<<>>, <<>>, <<>>, <<>>)

\* No recognition has read the lists yet.
NoObservation == [seen |-> FALSE, during |-> "idle", cache |-> EmptyCache]

\* The handles and flags of a ConnectionManager as one value.
Conn(cam, cam_ok, ard, ard_ok) ==
    [camera |-> cam, camera_ok |-> cam_ok, arduino |-> ard, arduino_ok |-> ard_ok]

\* A ConnectionManager call: the function, the device it is about, what it
\* returned, whether it touched the device, whether it waited for the
\* device, whether it raised, and the handles and flags it found.
Call(op, device, ret, io, blocked, raised, before) ==
    [op |-> op, device |-> device, ret |-> ret, io |-> io,
     blocked |-> blocked, raised |-> raised, before |-> before]

\* No ConnectionManager function has been called.
NoCall == Call("none", "", "", FALSE, FALSE, FALSE,
               Conn("none", FALSE, "none", FALSE))

\* recognize_face has not been called.
NoResult ==
    [success |-> FALSE, student_id |-> None, student_name |-> None,
     student |-> None, distance |-> 100, confidence |-> 0,
     error |-> "not called", calls |-> <<>>, raised |-> FALSE]

\* --------------------------------------------- face recognition service

\* FaceRecognitionService.is_face_valid.
is_face_valid(width, height) ==
    ~(width < min_face_size \/ height < min_face_size)

\* The result dictionary of recognize_face.  calls lists the library calls
\* the service made on the frame; raised tells that the call ended in an
\* exception instead of returning the dictionary.
Result(success, student, distance, confidence, error, calls) ==
    [success |-> success, student_id |-> student, student_name |-> student,
     student |-> student, distance |-> distance, confidence |-> confidence,
     error |-> error, calls |-> calls, raised |-> FALSE]

\* The matching step taking the first cache entry within the tolerance.
match_first_within(cache, tolerance, frame, calls) ==
    LET face_distances ==
            [i \in 1..Len(cache) |->
                face_distance(Embedding(cache[i]), frame.q)]
        within == {i \in 1..Len(cache) : face_distances[i] <= tolerance}
        first == CHOOSE i \in within : \A j \in within : i <= j
    IN  IF within # {}
        THEN Result(TRUE, cache[first], face_distances[first],
                    100 - face_distances[first], "", calls)
        ELSE Result(FALSE, None, face_distances[argmin(face_distances)], 0,
                    "No match found", calls)

\* The matching step accepting only distances below the tolerance.
match_strict(cache, tolerance, frame, calls) ==
    LET face_distances ==
            [i \in 1..Len(cache) |->
                face_distance(Embedding(cache[i]), frame.q)]
        best_match_index == argmin(face_distances)
        best_distance == face_distances[best_match_index]
    IN  IF best_distance < tolerance
        THEN Result(TRUE, cache[best_match_index], best_distance,
                    100 - best_distance, "", calls)
        ELSE Result(FALSE, None, best_distance, 0, "No match found", calls)

\* The matching step leaving the default distance in a no-match result.
match_default_distance(cache, tolerance, frame, calls) ==
    LET face_distances ==
            [i \in 1..Len(cache) |->
                face_distance(Embedding(cache[i]), frame.q)]
        best_match_index == argmin(face_distances)
        best_distance == face_distances[best_match_index]
    IN  IF best_distance <= tolerance
        THEN Result(TRUE, cache[best_match_index], best_distance,
                    100 - best_distance, "", calls)
        ELSE Result(FALSE, None, 100, 0, "No match found", calls)

\* The minimum-distance match of recognize_face against the cache: the id,
\* the name and the student are read at best_match_index from the three
\* lists, which a reload fills in step.
match(cache, tolerance, frame, calls) ==
    LET face_distances ==
            [i \in 1..Len(cache) |->
                face_distance(Embedding(cache[i]), frame.q)]
        best_match_index == argmin(face_distances)
        best_distance == face_distances[best_match_index]
    IN  IF best_distance <= tolerance
        THEN [Result(TRUE, cache[best_match_index], best_distance,
                     100 - best_distance, "", calls)
                 EXCEPT !.student_id = cache[best_match_index],
                        !.student_name = cache[best_match_index]]
        ELSE Result(FALSE, None, best_distance, 0, "No match found", calls)

\* The body of recognize_face's try block: the failure conditions in the
\* order of the code, then the match; a library call that raises ends the
\* block with the result as it stands.
recognize_try(cache, tolerance, frame) ==
    LET fail(err, calls) == Result(FALSE, None, 100, 0, err, calls)
        raise(calls) == [fail("", calls) EXCEPT !.raised = TRUE]
    IN  IF cache = <<>> THEN fail("No registered faces in cache", <<>>)
        ELSE IF frame.fault = "convert" THEN raise(<<"cvtColor">>)
        ELSE IF frame.fault = "detect"
            THEN raise(<<"cvtColor", "face_locations">>)
        ELSE IF ~frame.face
            THEN fail("No face detected", <<"cvtColor", "face_locations">>)
        ELSE IF ~is_face_valid(frame.width, frame.height)
            THEN fail("Face too small or invalid",
                      <<"cvtColor", "face_locations">>)
        ELSE IF frame.fault = "encode"
            THEN raise(<<"cvtColor", "face_locations", "face_encodings">>)
        ELSE IF ~frame.encodable
            THEN fail("Could not generate face encoding",
                      <<"cvtColor", "face_locations", "face_encodings">>)
        ELSE IF frame.fault = "match"
            THEN raise(<<"cvtColor", "face_locations", "face_encodings",
                         "face_distance">>)
        ELSE match(cache, tolerance, frame,
                   <<"cvtColor", "face_locations", "face_encodings",
                     "face_distance">>)

\* recognize_face detecting the face before looking at the cache.
recognize_face_detect_first(cache, tolerance, frame) ==
    LET fail(err, calls) == Result(FALSE, None, 100, 0, err, calls)
    IN  IF frame.fault # "none" THEN fail("exception", <<"cvtColor">>)
        ELSE IF ~frame.face
            THEN fail("No face detected", <<"cvtColor", "face_locations">>)
        ELSE IF cache = <<>>
            THEN fail("No registered faces in cache",
                      <<"cvtColor", "face_locations">>)
        ELSE IF ~is_face_valid(frame.width, frame.height)
            THEN fail("Face too small or invalid",
                      <<"cvtColor", "face_locations">>)
        ELSE IF ~frame.encodable
            THEN fail("Could not generate face encoding",
                      <<"cvtColor", "face_locations", "face_encodings">>)
        ELSE match(cache, tolerance, frame,
                   <<"cvtColor", "face_locations", "face_encodings",
                     "face_distance">>)

\* recognize_face encoding the face before validating its size.
recognize_face_encode_first(cache, tolerance, frame) ==
    LET fail(err, calls) == Result(FALSE, None, 100, 0, err, calls)
    IN  IF cache = <<>> THEN fail("No registered faces in cache", <<>>)
        ELSE IF frame.fault # "none" THEN fail("exception", <<"cvtColor">>)
        ELSE IF ~frame.face
            THEN fail("No face detected", <<"cvtColor", "face_locations">>)
        ELSE IF ~frame.encodable
            THEN fail("Could not generate face encoding",
                      <<"cvtColor", "face_locations", "face_encodings">>)
        ELSE IF ~is_face_valid(frame.width, frame.height)
            THEN fail("Face too small or invalid",
                      <<"cvtColor", "face_locations", "face_encodings">>)
        ELSE match(cache, tolerance, frame,
                   <<"cvtColor", "face_locations", "face_encodings",
                     "face_distance">>)

\* recognize_face without its except clause.
recognize_face_uncaught(cache, tolerance, frame) ==
    recognize_try(cache, tolerance, frame)

\* FaceRecognitionService.recognize_face: the try block, and the except
\* clause that turns an exception into the error of a failed result.
recognize_face(cache, tolerance, frame) ==
    LET r == recognize_try(cache, tolerance, frame)
    IN  IF r.raised
        THEN [r EXCEPT !.raised = FALSE, !.error = "exception"]
        ELSE r

\* DoorSystem.recognize_face (door_system.py) / DoorSystem.recognize
\* (door.py): the student of a successful result, None otherwise.
DoorSystem_recognize_face(cache, frame) ==
    LET result == recognize_face(cache, RECOGNITION_TOLERANCE, frame)
    IN  IF result.success THEN result.student ELSE None

\* The recognition of one attempt as an effect of the motion event: the
\* service's error text, the student the wrapper returned, and the best
\* gallery distance the service computed.
RecognizeEv(cache, frame) ==
    LET result == recognize_face(cache, RECOGNITION_TOLERANCE, frame)
        student == DoorSystem_recognize_face(cache, frame)
    IN  [op |-> "recognize", cmd |-> result.error, student |-> student,
         ok |-> student # None, dist |-> result.distance]

\* ------------------------------------------------------ attendance store

\* Attendance.objects.filter(student=s, timestamp__date=d,
\* entry_type='success').exists()
ExistsSuccess(att, s, d) ==
    \E r \in att : r.student = s /\ Day(r.timestamp) = d /\ r.entry_type = "success"

\* Attendance.objects.create(student=s, entry_type=..., location=...): the
\* row gets timestamp = timezone.now().  Rows are told apart by student,
\* timestamp and location.
CreateAttendance(att, s, t, loc) ==
    att \cup {[student |-> s, timestamp |-> t, entry_type |-> "success",
               location |-> loc]}

\* log_system as the handlers see it: each entry among the effects evs is
\* stored when the log store answers (logOk); a failed write is swallowed
\* and the entry is only printed.
log_system(evs, logOk) ==
    [i \in DOMAIN evs |->
        IF evs[i].op = "log_system" THEN [evs[i] EXCEPT !.ok = logOk]
        ELSE evs[i]]

\* save_attendance with a failed write neither logged nor reported.
save_attendance_silent(att, s, t, dbOk) ==
    IF ~dbOk \/ ExistsSuccess(att, s, Day(t))
    THEN [att |-> att, ret |-> FALSE,
          evs |-> <<Ev("save_attendance", "exists", s, FALSE)>>]
    ELSE [att |-> CreateAttendance(att, s, t, "Main Door"), ret |-> TRUE,
          evs |-> <<Ev("save_attendance", "created", s, TRUE),
                    Ev("log_system", "success:Attendance saved", s, TRUE)>>]

\* save_attendance without the same-day check: every answered call writes.
save_attendance_unguarded(att, s, t, dbOk) ==
    IF ~dbOk
    THEN [att |-> att, ret |-> FALSE,
          evs |-> <<Ev("save_attendance", "error", s, FALSE),
                    Ev("log_system", "error:Attendance error", s, TRUE)>>]
    ELSE [att |-> CreateAttendance(att, s, t, "Main Door"), ret |-> TRUE,
          evs |-> <<Ev("save_attendance", "created", s, TRUE),
                    Ev("log_system", "success:Attendance saved", s, TRUE)>>]

\* save_attendance(student): the same-day check, then the write.  dbOk is
\* whether the store answers; on a fault the except branch logs and
\* returns False.  The result carries the store, the return value and the
\* effects in code order.
save_attendance(att, s, t, dbOk) ==
    IF ~dbOk
    THEN [att |-> att, ret |-> FALSE,
          evs |-> <<Ev("save_attendance", "error", s, FALSE),
                    Ev("log_system", "error:Attendance error", s, TRUE)>>]
    ELSE IF ExistsSuccess(att, s, Day(t))
    THEN [att |-> att, ret |-> FALSE,
          evs |-> <<Ev("save_attendance", "exists", s, FALSE)>>]
    ELSE [att |-> CreateAttendance(att, s, t, "Main Door"), ret |-> TRUE,
          evs |-> <<Ev("save_attendance", "created", s, TRUE),
                    Ev("log_system", "success:Attendance saved", s, TRUE)>>]

\* History of save_attendance calls: the last two, each with the student,
\* the day of the call, whether the store answered, whether a success row
\* of that student and day existed before, whether the call changed the
\* store, and the return value.
RecordCall(calls, s, t, dbOk, before, saved) ==
    LET call == [student |-> s, day |-> Day(t), dbOk |-> dbOk,
                 had |-> ExistsSuccess(before, s, Day(t)),
                 changed |-> saved.att # before, ret |-> saved.ret]
    IN  IF calls = <<>> THEN <<call>> ELSE <<calls[Len(calls)], call>>

\* ------------------------------------------------------------ actuator

\* send_command(cmd).  door_system.py: nothing is written unless the
\* controller is flagged healthy; a faulting write clears the flag.
\* door.py: written when a controller handle exists, otherwise printed as
\* a simulated command and reported as sent.
send_command(cmd, writeOk) ==
    IF script = "door_system"
    THEN IF ~arduino_ok \/ arduino = "none"
         THEN [ret |-> FALSE, flag |-> arduino_ok,
               evs |-> <<Ev("send_command", cmd, 0, FALSE)>>]
         ELSE [ret |-> writeOk, flag |-> writeOk,
               evs |-> <<Ev("serial_write", cmd, 0, writeOk),
                         Ev("send_command", cmd, 0, writeOk)>>]
    ELSE IF arduino = "open"
         THEN [ret |-> writeOk, flag |-> arduino_ok,
               evs |-> <<Ev("serial_write", cmd, 0, writeOk),
                         Ev("send_command", cmd, 0, writeOk)>>]
         ELSE [ret |-> TRUE, flag |-> arduino_ok,
               evs |-> <<Ev("simulated", cmd, 0, TRUE),
                         Ev("send_command", cmd, 0, TRUE)>>]

\* ------------------------------------------------------------------ Init

\* No entry appended to detected_faces yet.
NoFace == [student |-> None, status |-> "none", confidence |-> 0]

\* The state after construction: nothing connected, no cache loaded.  The
\* store holds the enrolled students, each active or deactivated.
Constructed ==
    /\ script \in {"door_system", "door"}
    /\ state = "Idle"
    /\ camera = "none"
    /\ camera_ok = FALSE
    /\ arduino = "none"
    /\ arduino_ok = FALSE
    /\ attempt = 0
    /\ recognized = None
    /\ last_frame = "none"
    /\ trace = <<>>
    /\ known_students = <<>>
    /\ students \in [Students -> {"active", "inactive"}]
    /\ face_encoding = [s \in Students |-> StoredEncodings(s, 1)]
    /\ web_known_students = load_registered_faces(students)
    /\ attendance = {}
    /\ now = StartTime
    /\ today = Day(StartTime)
    /\ recent_attendance = [s \in Students |-> 0]
    /\ detected_face = NoFace
    /\ repeat_match = FALSE
    /\ live = "off"
    /\ last_seen = [s \in Students |-> 0]
    /\ save_calls = <<>>
    /\ shutdown = <<>>
    /\ pending = <<>>
    /\ reconnect_attempt = 0
    /\ pause_trace = <<>>
    /\ known_face_encodings = <<>>
    /\ known_face_names = <<>>
    /\ known_face_ids = <<>>
    /\ known_student_objs = <<>>
    /\ load_pc = "idle"
    /\ load_queue = <<>>
    /\ load_ret = 0
    /\ reports = <<>>
    /\ old_cache = EmptyCache
    /\ observed = NoObservation
    /\ image = NoFaceFrame
    /\ self_tolerance = DEFAULT_TOLERANCE
    /\ last_result = NoResult
    /\ serial_in = <<>>
    /\ last_call = NoCall
    /\ last_ok = [d \in {"CAMERA", "ARDUINO"} |-> FALSE]
    /\ total_recognitions = 0
    /\ successful_recognitions = 0
    /\ last_recognition_time = 0
    /\ system_log = ""
    /\ loop = "none"
    /\ since_check = 0
    /\ banner = ""

\* The sessions of DoorSystem, started by the controller's motion lines.
Init == Constructed /\ simulation = FALSE

\* The sessions of DoorSystemSimulation, started from the keyboard.
InitSim ==
    /\ Constructed
    /\ simulation = TRUE
    /\ students = [s \in Students |-> "active"]

\* ------------------------------------------------------- the door session

\* SystemLog.objects.order_by('-timestamp').first() after a handler that
\* appended the effects evs: the message of the last entry stored, or the
\* row that was the newest before.
NewestLog(prev, evs) ==
    LET stored == {i \in DOMAIN evs : evs[i].op = "log_system" /\ evs[i].ok}
    IN  IF stored = {} THEN prev
        ELSE evs[CHOOSE i \in stored : \A j \in stored : j <= i].cmd

\* 'granted' in message.lower() (door_system.py) and 'Access granted' in
\* message (door.py): of the messages the two scripts write, only door.py's
\* 'Access granted: <name>' holds the words.
MentionsGranted(message) == message = "success:Access granted"

\* DoorSystemSimulation.run after handle_motion: last_result is set from
\* the newest SystemLog row; when the query raises door_system.py keeps the
\* old text and door.py clears it.
update_banner(old, message, readOk) ==
    IF ~readOk THEN (IF script = "door_system" THEN old ELSE "")
    ELSE IF MentionsGranted(message) THEN "ACCESS GRANTED"
    ELSE "ACCESS DENIED"


\* DoorSystem.initialize, when every step succeeds: the camera is opened
\* and test-read, the controller is connected (door_system.py requires it
\* unless the session is a DoorSystemSimulation, which skips it; door.py
\* runs without one when no port is found), the service cache is loaded
\* from the active students, and 'Door system started' is logged.
initialize(haveArduino) ==
    /\ state = "Idle"
    /\ script = "door_system" => (haveArduino <=> ~simulation)
    /\ state' = "AwaitingMotion"
    /\ camera' = "open"
    /\ camera_ok' = (script = "door_system")
    /\ arduino' = IF haveArduino THEN "open" ELSE "none"
    /\ arduino_ok' = (script = "door_system" /\ haveArduino)
    /\ known_students' = load_registered_faces(students)
    /\ system_log' = IF simulation THEN "success:Door system started"
                     ELSE system_log
    /\ UNCHANGED <<script, attempt, recognized, last_frame, trace>>
    /\ UNCHANGED <<storeVars, liveVars, now, save_calls, svcVars>>
    /\ UNCHANGED <<shutdown, pending, reconnect_attempt, pause_trace,
                   modeVars, banner>>

\* The ways DoorSystem.initialize fails: VideoCapture raises, the camera
\* does not open, the test read raises or yields no frame, the controller
\* does not connect (door_system.py; door.py goes on without one), or the
\* face service fails to load.
InitFailures ==
    {"camera_raise_open", "camera_not_opened", "camera_raise_read",
     "camera_no_frame", "controller", "face_service"}

\* DoorSystem.initialize, when the camera, the controller or the face
\* service fails: run returns without entering the loop and without
\* calling cleanup.  A camera failure returns with the handle as the
\* failed step left it; door_system.py calls ConnectionManager.cleanup
\* before it returns for the controller and for the face service; door.py
\* loads the face service first, before any handle exists.
initialize_failed(cause) ==
    /\ state = "Idle"
    /\ cause = "controller" => script = "door_system"
    /\ state' = "InitFailed"
    /\ camera' = IF cause = "camera_not_opened" THEN "closed"
                 ELSE IF cause \in {"camera_raise_read", "camera_no_frame"}
                 THEN "open"
                 ELSE "none"
    /\ UNCHANGED <<script, camera_ok, arduino, arduino_ok, attempt,
                   recognized, last_frame, trace, known_students>>
    /\ UNCHANGED <<storeVars, liveVars, now, save_calls, connVars, svcVars>>

\* run: a motion line read from the controller (door.py: or the keyboard
\* trigger, as a DoorSystemSimulation of door_system.py does) calls
\* handle_motion.  door_system.py returns at once, with no decision, when
\* the camera is flagged unhealthy; a simulation then sets its banner.
MotionSignal ==
    /\ state = "AwaitingMotion"
    /\ (script = "door_system" /\ ~simulation)
           => (arduino_ok /\ arduino = "open")
    /\ IF script = "door_system" /\ ~camera_ok
       THEN /\ trace' = <<Ev("motion", "", 0, FALSE)>>
            /\ banner' = IF simulation
                         THEN update_banner(banner, system_log, TRUE)
                         ELSE banner
            /\ UNCHANGED <<state, attempt, recognized, last_frame>>
       ELSE /\ trace' = <<Ev("motion", "", 0, TRUE)>>
            /\ state' = "Recognizing"
            /\ attempt' = 0
            /\ recognized' = None
            /\ last_frame' = "none"
            /\ UNCHANGED banner
    /\ UNCHANGED <<script, camera, camera_ok, arduino, arduino_ok, known_students>>
    /\ UNCHANGED <<storeVars, liveVars, now, save_calls, svcVars>>
    /\ UNCHANGED <<shutdown, pending, reconnect_attempt, pause_trace,
                   modeVars, system_log>>

\* The grant branch taken whatever the attempt loop found.
AfterLoop_grant_always(student) == "Granting"

\* The state after the attempt loop: "if recognized_student".
AfterLoop(student) == IF student # None THEN "Granting" ELSE "Denying"

\* An attempt loop that gives up after its first iteration.
door_system_attempt_single(captured, frame) ==
    IF ~camera_ok \/ ~captured
    THEN [state |-> "Denying", attempt |-> attempt, recognized |-> None,
          last_frame |-> last_frame, camera_ok |-> camera_ok /\ captured,
          evs |-> IF camera_ok THEN <<Ev("capture", "", 0, FALSE)>> ELSE <<>>]
    ELSE LET student == DoorSystem_recognize_face(known_students, frame)
         IN  [state |-> IF student # None THEN "Granting" ELSE "Denying",
              attempt |-> attempt + 1, recognized |-> student,
              last_frame |-> "frame", camera_ok |-> camera_ok,
              evs |-> <<Ev("capture", "", 0, TRUE),
                        RecognizeEv(known_students, frame)>>]

\* One iteration of the attempt loop of handle_motion in door_system.py.
\* A failed capture flags the camera unhealthy and breaks out of the loop.
door_system_attempt(captured, frame) ==
    IF ~camera_ok
    THEN [state |-> AfterLoop(None), attempt |-> attempt, recognized |-> None,
          last_frame |-> last_frame, camera_ok |-> camera_ok, evs |-> <<>>]
    ELSE IF ~captured
    THEN [state |-> AfterLoop(None), attempt |-> attempt, recognized |-> None,
          last_frame |-> last_frame, camera_ok |-> FALSE,
          evs |-> <<Ev("capture", "", 0, FALSE)>>]
    ELSE LET student == DoorSystem_recognize_face(known_students, frame)
             evs == <<Ev("capture", "", 0, TRUE),
                      RecognizeEv(known_students, frame)>>
         IN  IF student # None
             THEN [state |-> AfterLoop(student), attempt |-> attempt,
                   recognized |-> student, last_frame |-> "frame",
                   camera_ok |-> camera_ok, evs |-> evs]
             ELSE [state |-> IF attempt + 1 < RECOGNITION_ATTEMPTS
                             THEN "Recognizing" ELSE AfterLoop(None),
                   attempt |-> attempt + 1, recognized |-> None,
                   last_frame |-> "frame", camera_ok |-> camera_ok, evs |-> evs]

\* An attempt loop without the break on a match: the remaining iterations
\* still capture and recognize.
door_attempt_no_break(captured, frame) ==
    LET student == IF captured
                   THEN DoorSystem_recognize_face(known_students, frame)
                   ELSE recognized
        evs == IF captured
               THEN <<Ev("capture", "", 0, TRUE), RecognizeEv(known_students, frame)>>
               ELSE <<Ev("capture", "", 0, FALSE)>>
    IN  [state |-> IF attempt + 1 < RECOGNITION_ATTEMPTS THEN "Recognizing"
                   ELSE IF student # None THEN "Granting" ELSE "Denying",
         attempt |-> attempt + 1, recognized |-> student,
         last_frame |-> IF captured THEN "frame" ELSE "none",
         camera_ok |-> camera_ok, evs |-> evs]

\* One iteration of the attempt loop of handle_motion in door.py.  A failed
\* read continues with the next iteration; frame holds the last read's
\* image, which is None after a failed read.
door_attempt(captured, frame) ==
    IF ~captured
    THEN [state |-> IF attempt + 1 < RECOGNITION_ATTEMPTS
                    THEN "Recognizing" ELSE AfterLoop(recognized),
          attempt |-> attempt + 1, recognized |-> recognized,
          last_frame |-> "none", camera_ok |-> camera_ok,
          evs |-> <<Ev("capture", "", 0, FALSE)>>]
    ELSE LET student == DoorSystem_recognize_face(known_students, frame)
             evs == <<Ev("capture", "", 0, TRUE),
                      RecognizeEv(known_students, frame)>>
         IN  IF student # None
             THEN [state |-> AfterLoop(student), attempt |-> attempt,
                   recognized |-> student, last_frame |-> "frame",
                   camera_ok |-> camera_ok, evs |-> evs]
             ELSE [state |-> IF attempt + 1 < RECOGNITION_ATTEMPTS
                             THEN "Recognizing" ELSE AfterLoop(None),
                   attempt |-> attempt + 1, recognized |-> None,
                   last_frame |-> "frame", camera_ok |-> camera_ok, evs |-> evs]

Attempt(captured, frame) ==
    /\ state = "Recognizing"
    /\ attempt < RECOGNITION_ATTEMPTS
    /\ LET r == IF script = "door_system"
                THEN door_system_attempt(captured, frame)
                ELSE door_attempt(captured, frame)
       IN  /\ state' = r.state
           /\ attempt' = r.attempt
           /\ recognized' = r.recognized
           /\ last_frame' = r.last_frame
           /\ camera_ok' = r.camera_ok
           /\ trace' = trace \o r.evs
    /\ UNCHANGED <<script, camera, arduino, arduino_ok, known_students>>
    /\ UNCHANGED <<storeVars, liveVars, now, save_calls, connVars, svcVars>>

\* The grant branch with the attendance write ahead of the unlock command.
GrantEffects_save_first(unlock, saved) ==
    saved.evs \o unlock.evs

\* The effects of the grant branch of handle_motion, in code order: the
\* unlock command, then save_attendance; door.py then logs the grant.
GrantEffects(unlock, saved) ==
    unlock.evs \o saved.evs \o
        (IF script = "door"
         THEN <<Ev("log_system", "success:Access granted", recognized, TRUE)>>
         ELSE <<>>)

Grant(writeOk, dbOk, logOk) ==
    /\ state = "Granting"
    /\ LET unlock == send_command("UNLOCK", writeOk)
           saved == save_attendance(attendance, recognized, now, dbOk)
           evs == log_system(GrantEffects(unlock, saved), logOk)
           newest == NewestLog(system_log, evs)
       IN  /\ arduino_ok' = unlock.flag
           /\ attendance' = saved.att
           /\ trace' = trace \o evs
           /\ system_log' = IF simulation THEN newest ELSE system_log
           /\ banner' = IF simulation
                        THEN update_banner(banner, newest, logOk)
                        ELSE banner
    /\ state' = "AwaitingMotion"
    /\ attempt' = 0
    /\ recognized' = None
    /\ last_frame' = "none"
    /\ UNCHANGED <<script, camera, camera_ok, arduino, known_students>>
    /\ UNCHANGED <<students, web_known_students, liveVars, now, save_calls,
                   svcVars>>
    /\ UNCHANGED <<shutdown, pending, reconnect_attempt, pause_trace,
                   modeVars>>

\* The deny branch without the deny command.
DenyEffects_no_command(denied, imwriteOk) ==
    <<Ev("log_system", "warning:Access denied: Unknown face", 0, TRUE)>>

\* The effects of the deny branch of handle_motion, in code order: the
\* deny command, the denial log entry, then the evidence frame when the
\* handler still holds one.
DenyEffects(denied, imwriteOk) ==
    denied.evs \o
        <<Ev("log_system", "warning:Access denied: Unknown face", 0, TRUE)>> \o
        (IF last_frame # "none" THEN <<Ev("imwrite", "", 0, imwriteOk)>> ELSE <<>>)

Deny(writeOk, imwriteOk, logOk) ==
    /\ state = "Denying"
    /\ LET denied == send_command("DENIED", writeOk)
           evs == log_system(DenyEffects(denied, imwriteOk), logOk)
           newest == NewestLog(system_log, evs)
       IN  /\ arduino_ok' = denied.flag
           /\ trace' = trace \o evs
           /\ system_log' = IF simulation THEN newest ELSE system_log
           /\ banner' = IF simulation
                        THEN update_banner(banner, newest, logOk)
                        ELSE banner
    /\ state' = "AwaitingMotion"
    /\ attempt' = 0
    /\ recognized' = None
    /\ last_frame' = "none"
    /\ UNCHANGED <<script, camera, camera_ok, arduino, known_students>>
    /\ UNCHANGED <<storeVars, liveVars, now, save_calls, svcVars>>
    /\ UNCHANGED <<shutdown, pending, reconnect_attempt, pause_trace,
                   modeVars>>

\* DoorSystem.cleanup, in code order.  door_system.py: the LOCK command
\* when the controller is flagged healthy, then ConnectionManager.cleanup
\* releases the camera and closes the controller.  door.py: the camera is
\* released, then LOCK is sent and the controller closed when a controller
\* handle exists.
DoorSystem_cleanup(cam, ard, ard_ok) ==
    IF script = "door_system"
    THEN (IF ard_ok THEN <<"LOCK">> ELSE <<>>)
         \o (IF cam = "open" THEN <<"release_camera">> ELSE <<>>)
         \o (IF ard = "open" THEN <<"close_arduino">> ELSE <<>>)
    ELSE (IF cam = "open" THEN <<"release_camera">> ELSE <<>>)
         \o (IF ard = "open" THEN <<"LOCK", "close_arduino">> ELSE <<>>)

\* cleanup run on the handles and flags as they are.
cleanup_effects == DoorSystem_cleanup(camera, arduino, arduino_ok)

\* ConnectionManager.cleanup after DoorSystem.cleanup: both handles are
\* released and both flags cleared; the session is over.
Released ==
    /\ state' = "Stopped"
    /\ shutdown' = cleanup_effects
    /\ camera' = "none"
    /\ camera_ok' = FALSE
    /\ arduino' = "none"
    /\ arduino_ok' = FALSE

\* run of door_system.py, the periodic connection check: check_connections
\* probes the camera and the controller; each failed device is reconnected
\* with at most MAX_RECONNECT_ATTEMPTS tries (camReconnect, ardReconnect:
\* the try that succeeds, 0 when none does).  A device that cannot be
\* reconnected stops the run, and the finally clause cleans up.
PeriodicCheck(camProbe, ardProbe, camReconnect, ardReconnect) ==
    /\ script = "door_system"
    /\ state = "AwaitingMotion"
    /\ LET camera_error == ~(camera = "open" /\ camProbe)
           arduino_error == ~simulation /\ ~(arduino = "open" /\ ardProbe)
           camera_back == ~camera_error \/ camReconnect > 0
           arduino_back == ~arduino_error \/ ardReconnect > 0
       IN  IF camera_back /\ arduino_back
           THEN /\ camera' = "open"
                /\ camera_ok' = TRUE
                /\ arduino' = IF simulation THEN arduino ELSE "open"
                /\ arduino_ok' = ~simulation
                /\ UNCHANGED <<state, shutdown>>
           ELSE Released
    /\ UNCHANGED <<script, attempt, recognized, last_frame, trace, known_students>>
    /\ UNCHANGED <<pending, reconnect_attempt, pause_trace>>
    /\ UNCHANGED <<storeVars, liveVars, now, save_calls, svcVars, simVars>>

\* KeyboardInterrupt in run: the finally clause runs cleanup.
Interrupt ==
    /\ state \in {"AwaitingMotion", "Recognizing", "Granting", "Denying", "Paused"}
    /\ Released
    /\ UNCHANGED <<script, attempt, recognized, last_frame, trace, known_students>>
    /\ UNCHANGED <<pending, reconnect_attempt, pause_trace>>
    /\ UNCHANGED <<storeVars, liveVars, now, save_calls, svcVars, simVars>>

\* ------------------------------- the periodic check, one step at a time

\* One effect of a periodic connection check.
PEv(op, device, ok) == [op |-> op, device |-> device, ok |-> ok]

\* DoorSystem.check_connections: check_camera and check_arduino set the
\* health flags from the handle and the probe; errors lists the devices
\* that failed, the camera first.
check_connections(camProbe, ardProbe) ==
    LET cam == camera = "open" /\ camProbe
        ard == arduino = "open" /\ ardProbe
    IN  [camera_ok |-> cam, arduino_ok |-> ard,
         errors |-> (IF cam THEN <<>> ELSE <<"CAMERA">>)
                    \o (IF ard THEN <<>> ELSE <<"ARDUINO">>),
         evs |-> <<PEv("check", "CAMERA", cam), PEv("check", "ARDUINO", ard)>>]

\* attempt_reconnect giving up one attempt late.
attempt_reconnect_one_more(device, i, ok) ==
    LET connect == PEv("connect", device, ok)
    IN  IF ok
        THEN [done |-> TRUE, ret |-> TRUE,
              evs |-> <<connect, PEv("log_reconnected", device, TRUE),
                        PEv("return", device, TRUE)>>]
        ELSE IF i < MAX_RECONNECT_ATTEMPTS
        THEN [done |-> FALSE, ret |-> FALSE, evs |-> <<connect>>]
        ELSE [done |-> TRUE, ret |-> FALSE,
              evs |-> <<connect, PEv("return", device, FALSE)>>]

\* attempt_reconnect without the log entry of a successful reconnect.
attempt_reconnect_unlogged(device, i, ok) ==
    LET connect == PEv("connect", device, ok)
    IN  IF ok
        THEN [done |-> TRUE, ret |-> TRUE,
              evs |-> <<connect, PEv("return", device, TRUE)>>]
        ELSE IF i + 1 < MAX_RECONNECT_ATTEMPTS
        THEN [done |-> FALSE, ret |-> FALSE, evs |-> <<connect>>]
        ELSE [done |-> TRUE, ret |-> FALSE,
              evs |-> <<connect, PEv("return", device, FALSE)>>]

\* DoorSystem.attempt_reconnect(device), iteration i of its loop, where ok
\* is the outcome of connect_camera / connect_arduino: a success is logged
\* and returns True at once; a failure waits and tries again, and the loop
\* returns False when its MAX_RECONNECT_ATTEMPTS iterations are used up.
attempt_reconnect(device, i, ok) ==
    LET connect == PEv("connect", device, ok)
    IN  IF ok
        THEN [done |-> TRUE, ret |-> TRUE,
              evs |-> <<connect, PEv("log_reconnected", device, TRUE),
                        PEv("return", device, TRUE)>>]
        ELSE IF i + 1 < MAX_RECONNECT_ATTEMPTS
        THEN [done |-> FALSE, ret |-> FALSE, evs |-> <<connect>>]
        ELSE [done |-> TRUE, ret |-> FALSE,
              evs |-> <<connect, PEv("return", device, FALSE)>>]

\* The loop over errors resuming although a device could not be reconnected.
reconnect_loop_resume_anyway(pend, r) ==
    IF ~r.done THEN [state |-> "Paused", pending |-> pend, evs |-> <<>>]
    ELSE IF Tail(pend) # <<>>
    THEN [state |-> "Paused", pending |-> Tail(pend),
          evs |-> <<PEv("log_disconnected", Head(Tail(pend)), TRUE)>>]
    ELSE [state |-> "AwaitingMotion", pending |-> <<>>,
          evs |-> <<PEv("resumed", "", TRUE)>>]

\* The loop over errors going on to the next device after a fatal failure.
reconnect_loop_no_break(pend, r) ==
    IF ~r.done THEN [state |-> "Paused", pending |-> pend, evs |-> <<>>]
    ELSE IF Tail(pend) # <<>>
    THEN [state |-> "Paused", pending |-> Tail(pend),
          evs |-> <<PEv("log_disconnected", Head(Tail(pend)), TRUE)>>]
    ELSE IF r.ret
    THEN [state |-> "AwaitingMotion", pending |-> <<>>,
          evs |-> <<PEv("resumed", "", TRUE)>>]
    ELSE [state |-> "Stopped", pending |-> pend, evs |-> <<>>]

\* run, the loop over errors, after one iteration r of attempt_reconnect
\* for the device at the head of pend: a device that could not be
\* reconnected clears running and breaks out of the loop; after a
\* reconnect the next device is logged as disconnected and tried, and
\* after the last one paused is cleared.
reconnect_loop(pend, r) ==
    IF ~r.done THEN [state |-> "Paused", pending |-> pend, evs |-> <<>>]
    ELSE IF ~r.ret THEN [state |-> "Stopped", pending |-> pend, evs |-> <<>>]
    ELSE IF Tail(pend) # <<>>
    THEN [state |-> "Paused", pending |-> Tail(pend),
          evs |-> <<PEv("log_disconnected", Head(Tail(pend)), TRUE)>>]
    ELSE [state |-> "AwaitingMotion", pending |-> <<>>,
          evs |-> <<PEv("resumed", "", TRUE)>>]

\* run of door_system.py, the periodic connection check: the probes; when
\* a device failed, paused is set and the first failed device is logged as
\* disconnected.
ConnectionCheck(camProbe, ardProbe) ==
    /\ script = "door_system"
    /\ state = "AwaitingMotion"
    /\ LET c == check_connections(camProbe, ardProbe)
       IN  /\ camera_ok' = c.camera_ok
           /\ arduino_ok' = c.arduino_ok
           /\ pending' = c.errors
           /\ state' = IF c.errors # <<>> THEN "Paused" ELSE state
           /\ pause_trace' =
                  c.evs \o (IF c.errors # <<>>
                            THEN <<PEv("log_disconnected", Head(c.errors), TRUE)>>
                            ELSE <<>>)
    /\ reconnect_attempt' = 0
    /\ UNCHANGED <<script, camera, arduino, attempt, recognized, last_frame, trace,
                   known_students, shutdown>>
    /\ UNCHANGED <<storeVars, liveVars, now, save_calls, svcVars, simVars>>

\* One iteration of attempt_reconnect for the device at the head of
\* pending, and what run does with its result.  connect_camera and
\* connect_arduino set the health flag to the outcome; a successful
\* connect leaves an open handle.
ReconnectAttempt(ok) ==
    /\ state = "Paused"
    /\ pending # <<>>
    /\ LET device == Head(pending)
           r == attempt_reconnect(device, reconnect_attempt, ok)
           l == reconnect_loop(pending, r)
           cam_ok == IF device = "CAMERA" THEN ok ELSE camera_ok
           ard_ok == IF device = "ARDUINO" THEN ok ELSE arduino_ok
           cam == IF device = "CAMERA" /\ ok THEN "open" ELSE camera
           ard == IF device = "ARDUINO" /\ ok THEN "open" ELSE arduino
       IN  /\ pause_trace' = pause_trace \o r.evs \o l.evs
           /\ pending' = l.pending
           /\ reconnect_attempt' = IF r.done THEN 0 ELSE reconnect_attempt + 1
           /\ state' = l.state
           /\ IF l.state = "Stopped"
              THEN /\ camera' = "none"
                   /\ camera_ok' = FALSE
                   /\ arduino' = "none"
                   /\ arduino_ok' = FALSE
                   /\ shutdown' = DoorSystem_cleanup(cam, ard, ard_ok)
              ELSE /\ camera' = cam
                   /\ camera_ok' = cam_ok
                   /\ arduino' = ard
                   /\ arduino_ok' = ard_ok
                   /\ UNCHANGED shutdown
    /\ UNCHANGED <<script, attempt, recognized, last_frame, trace, known_students>>
    /\ UNCHANGED <<storeVars, liveVars, now, save_calls, svcVars, simVars>>

\* ----------------------------------------------------------- the web layer

\* views.toggle_student_status: flips is_active and refreshes the cache of
\* the web process's own service instance.
toggle_student_status(pk) ==
    /\ students[pk] # "absent"
    /\ students' = [students EXCEPT
                       ![pk] = IF @ = "active" THEN "inactive" ELSE "active"]
    /\ web_known_students' = load_registered_faces(students')
    /\ UNCHANGED <<doorVars, attendance, liveVars, now, save_calls, connVars,
                   svcVars>>

\* views.delete_student (POST): deletes the student and refreshes the cache
\* of the web process's own service instance.
delete_student(pk) ==
    /\ students[pk] # "absent"
    /\ students' = [students EXCEPT ![pk] = "absent"]
    /\ web_known_students' = load_registered_faces(students')
    /\ UNCHANGED <<doorVars, attendance, liveVars, now, save_calls, connVars,
                   svcVars>>

\* ------------------------------------------------------------------ clock

AdvanceClock(d) ==
    /\ d > 0
    /\ now + d <= EndTime
    /\ now' = now + d
    /\ UNCHANGED <<doorVars, storeVars, liveVars, save_calls, connVars, svcVars>>

\* --------------------------------------------------- the grant path alone

\* save_attendance(student) called for an enrolled student, as the grant
\* branch of handle_motion calls it.
GrantPath(s, dbOk) ==
    /\ LET saved == save_attendance(attendance, s, now, dbOk)
       IN  /\ attendance' = saved.att
           /\ save_calls' = RecordCall(save_calls, s, now, dbOk, attendance, saved)
    /\ UNCHANGED <<doorVars, students, web_known_students, liveVars, now,
                   connVars, svcVars>>

\* ------------------------------------------ live_camera_attendance

\* Start-up of live_camera_attendance: a service is built, with its
\* counters at zero, and its cache is loaded, the function returns when no
\* student is active, today is computed once, and recent_attendance starts
\* empty (get(id, 0) reads 0).
live_start ==
    /\ live = "off"
    /\ state = "Idle"
    /\ ActiveStudents(students) # <<>>
    /\ live' = "running"
    /\ known_students' = load_registered_faces(students)
    /\ today' = Day(now)
    /\ recent_attendance' = [s \in Students |-> 0]
    /\ UNCHANGED <<script, state, camera, camera_ok, arduino, arduino_ok, attempt,
                   recognized, last_frame, trace>>
    /\ total_recognitions' = 0
    /\ successful_recognitions' = 0
    /\ last_recognition_time' = 0
    /\ UNCHANGED <<storeVars, detected_face, last_seen, repeat_match, now,
                   save_calls, connVars>>
    /\ UNCHANGED <<face_encoding, known_face_encodings, known_face_names,
                   known_face_ids, known_student_objs, load_pc, load_queue,
                   load_ret, reports, old_cache, observed, image,
                   self_tolerance, last_result, devVars>>

\* The multi-face loop matching within the service's default tolerance.
live_face_default_tolerance(att, recent, q, t) ==
    LET face_distances ==
            [i \in 1..Len(known_students) |->
                face_distance(Embedding(known_students[i]), q)]
        best_match_index == argmin(face_distances)
        best_distance == face_distances[best_match_index]
        matched == known_students # <<>> /\ best_distance <= DEFAULT_TOLERANCE
        student == IF matched THEN known_students[best_match_index] ELSE None
        confidence == IF matched THEN 100 - best_distance ELSE 0
        last_marked == recent[student]
        past_cooldown == t - last_marked >= ATTENDANCE_COOLDOWN
        already_today == ExistsSuccess(att, student, today)
        status ==
            IF ~matched THEN "unknown"
            ELSE IF confidence < MIN_CONFIDENCE THEN "low_conf"
            ELSE IF ~past_cooldown THEN "cooldown"
            ELSE IF already_today THEN "already"
            ELSE "marked"
    IN  [att |-> IF status = "marked"
                 THEN CreateAttendance(att, student, t, "Camera Attendance")
                 ELSE att,
         recent |-> IF status \in {"marked", "already"}
                    THEN [recent EXCEPT ![student] = t]
                    ELSE recent,
         face |-> [student |-> student, status |-> status,
                   confidence |-> confidence]]

\* The body of the multi-face loop for one face with embedding q at
\* current_time t: the match against the cache, then the cooldown, the
\* same-day check against today and the write.  The faces of one tick are
\* handled one after the other at the same current_time.
live_face(att, recent, q, t) ==
    LET face_distances ==
            [i \in 1..Len(known_students) |->
                face_distance(Embedding(known_students[i]), q)]
        best_match_index == argmin(face_distances)
        best_distance == face_distances[best_match_index]
        matched == known_students # <<>> /\ best_distance <= RECOGNITION_TOLERANCE
        student == IF matched THEN known_students[best_match_index] ELSE None
        confidence == IF matched THEN 100 - best_distance ELSE 0
        last_marked == recent[student]
        past_cooldown == t - last_marked >= ATTENDANCE_COOLDOWN
        already_today == ExistsSuccess(att, student, today)
        status ==
            IF ~matched THEN "unknown"
            ELSE IF confidence < MIN_CONFIDENCE THEN "low_conf"
            ELSE IF ~past_cooldown THEN "cooldown"
            ELSE IF already_today THEN "already"
            ELSE "marked"
    IN  [att |-> IF status = "marked"
                 THEN CreateAttendance(att, student, t, "Camera Attendance")
                 ELSE att,
         recent |-> IF status \in {"marked", "already"}
                    THEN [recent EXCEPT ![student] = t]
                    ELSE recent,
         face |-> [student |-> student, status |-> status,
                   confidence |-> confidence]]

\* One face handled by a recognition tick of the live loop.
LiveFace(q) ==
    /\ live = "running"
    /\ LET r == live_face(attendance, recent_attendance, q, now)
           s == r.face.student
       IN  /\ attendance' = r.att
           /\ recent_attendance' = r.recent
           /\ detected_face' = r.face
           /\ last_seen' = IF s # None THEN [last_seen EXCEPT ![s] = now]
                           ELSE last_seen
           /\ repeat_match' = (s # None /\ last_seen[s] > 0
                               /\ now - last_seen[s] < ATTENDANCE_COOLDOWN)
    /\ UNCHANGED <<doorVars, students, web_known_students, today, live, now,
                   save_calls, connVars, svcVars>>

\* ------------------------------------------------------- specifications

\* The door session (door_system.py or door.py) and the wall clock.
Next ==
    \/ \E haveArduino \in BOOLEAN : initialize(haveArduino)
    \/ \E cause \in InitFailures : initialize_failed(cause)
    \/ MotionSignal
    \/ \E captured \in BOOLEAN, frame \in Frames : Attempt(captured, frame)
    \/ \E writeOk, dbOk \in BOOLEAN : Grant(writeOk, dbOk, TRUE)
    \/ \E writeOk, imwriteOk \in BOOLEAN : Deny(writeOk, imwriteOk, TRUE)
    \/ \E camProbe, ardProbe \in BOOLEAN,
          camReconnect, ardReconnect \in 0..MAX_RECONNECT_ATTEMPTS :
            PeriodicCheck(camProbe, ardProbe, camReconnect, ardReconnect)
    \/ Interrupt

Spec == Init /\ [][Next]_vars

\* The door session next to the web layer's student administration.
NextWeb ==
    \/ \E haveArduino \in BOOLEAN : initialize(haveArduino)
    \/ MotionSignal
    \/ \E captured \in BOOLEAN, frame \in Frames : Attempt(captured, frame)
    \/ \E writeOk, dbOk \in BOOLEAN : Grant(writeOk, dbOk, TRUE)
    \/ \E writeOk, imwriteOk \in BOOLEAN : Deny(writeOk, imwriteOk, TRUE)
    \/ \E pk \in Students : toggle_student_status(pk)
    \/ \E pk \in Students : delete_student(pk)

SpecWeb == Init /\ [][NextWeb]_vars

\* The grant path called on its own, and the wall clock.
NextSave ==
    \/ \E s \in Students, dbOk \in BOOLEAN : GrantPath(s, dbOk)
    \/ \E d \in ClockSteps : AdvanceClock(d)

\* save_attendance is the same in both scripts and reads no student flag.
InitSave ==
    /\ Init
    /\ script = "door_system"
    /\ students = [s \in Students |-> "active"]

SpecSave == InitSave /\ [][NextSave]_vars

\* The multi-face attendance session, grants of a door session on the same
\* store, and the wall clock.
NextLive ==
    \/ live_start
    \/ \E q \in Queries : LiveFace(q)
    \/ \E d \in ClockSteps : AdvanceClock(d)

\* live_camera_attendance is a mode of door_system.py.
InitLive ==
    /\ Init
    /\ script = "door_system"
    /\ students = [s \in Students |-> "active"]

SpecLive == InitLive /\ [][NextLive]_vars

\* The frames drawn while the periodic check is followed step by step: a
\* face of the first student and a frame without a face.
ConnFrames ==
    {NoFaceFrame,
     Frame("none", TRUE, min_face_size, min_face_size, TRUE, Embedding(1))}

\* The door session of door_system.py with the periodic connection check
\* taken one reconnect attempt at a time.
NextConn ==
    \/ initialize(TRUE)
    \/ MotionSignal
    \/ \E captured \in BOOLEAN, frame \in ConnFrames : Attempt(captured, frame)
    \/ \E writeOk \in BOOLEAN : Grant(writeOk, TRUE, TRUE)
    \/ \E writeOk \in BOOLEAN : Deny(writeOk, TRUE, TRUE)
    \/ \E camProbe, ardProbe \in BOOLEAN : ConnectionCheck(camProbe, ardProbe)
    \/ \E ok \in BOOLEAN : ReconnectAttempt(ok)
    \/ Interrupt

InitConn ==
    /\ Init
    /\ script = "door_system"
    /\ students = [s \in Students |-> "active"]

SpecConn == InitConn /\ [][NextConn]_vars

\* The motion events of a door session (either script) with every store
\* fault: the attendance store and the log store each answer or fail.
NextLog ==
    \/ \E haveArduino \in BOOLEAN : initialize(haveArduino)
    \/ MotionSignal
    \/ \E captured \in BOOLEAN, frame \in ConnFrames : Attempt(captured, frame)
    \/ \E writeOk, dbOk, logOk \in BOOLEAN : Grant(writeOk, dbOk, logOk)
    \/ \E writeOk, imwriteOk, logOk \in BOOLEAN :
           Deny(writeOk, imwriteOk, logOk)
    \/ \E d \in ClockSteps : AdvanceClock(d)

InitLog ==
    /\ Init
    /\ students = [s \in Students |-> "active"]

SpecLog == InitLog /\ [][NextLog]_vars

\* A DoorSystemSimulation session of either script: the keyboard starts
\* the motion events, and every store and device fault can happen.
NextSim ==
    \/ \E haveArduino \in BOOLEAN : initialize(haveArduino)
    \/ MotionSignal
    \/ \E captured \in BOOLEAN, frame \in ConnFrames : Attempt(captured, frame)
    \/ \E writeOk, dbOk, logOk \in BOOLEAN : Grant(writeOk, dbOk, logOk)
    \/ \E writeOk, imwriteOk, logOk \in BOOLEAN :
           Deny(writeOk, imwriteOk, logOk)
    \/ \E camProbe \in BOOLEAN, camReconnect \in 0..MAX_RECONNECT_ATTEMPTS :
           PeriodicCheck(camProbe, TRUE, camReconnect, 0)
    \/ Interrupt

SpecSim == InitSim /\ [][NextSim]_vars

\* ------------------------------------------------ recognize_face alone

\* The wall-clock time recognize_face measures around a call, in
\* milliseconds: one unit for the bookkeeping and one per library call.
elapsed_time(result) == 1 + Len(result.calls)

\* FaceRecognitionService.get_performance_stats: the three figures that
\* count the calls.
get_performance_stats ==
    [total_recognitions |-> total_recognitions,
     successful_recognitions |-> successful_recognitions,
     last_recognition_time_ms |-> last_recognition_time]

\* A service is built with tolerance tol (0.6 by default, 0.5 in the door
\* scripts) and recognize_face is called on frame with the cache loaded
\* from the store.
service_recognize(tol, frame) ==
    /\ self_tolerance' = tol
    /\ image' = frame
    /\ last_result' = recognize_face(web_known_students, tol, frame)
    /\ total_recognitions' = 1
    /\ successful_recognitions' = IF last_result'.success THEN 1 ELSE 0
    /\ last_recognition_time' = elapsed_time(last_result')
    /\ UNCHANGED <<doorVars, storeVars, liveVars, now, save_calls, connVars>>
    /\ UNCHANGED <<face_encoding, known_face_encodings, known_face_names,
                   known_face_ids, known_student_objs, load_pc, load_queue,
                   load_ret, reports, old_cache, observed, devVars>>

NextRecognize ==
    \E tol \in {RECOGNITION_TOLERANCE, DEFAULT_TOLERANCE} :
        \E frame \in AllFrames : service_recognize(tol, frame)

\* The store, and with it the loaded cache, is any of those Init allows.
InitRecognize == Init /\ script = "door_system"

SpecRecognize == InitRecognize /\ [][NextRecognize]_vars

\* The frames with a valid face that has an encoding.
MatchFrames ==
    {f \in AllFrames :
        /\ f.fault = "none" /\ f.face /\ f.encodable
        /\ f.width = min_face_size /\ f.height = min_face_size}

\* The match of the single-face path (recognize_face) and of the
\* multi-face path (the loop of live_camera_attendance) side by side.
NextMatch ==
    \/ \E tol \in {RECOGNITION_TOLERANCE, DEFAULT_TOLERANCE} :
           \E frame \in MatchFrames : service_recognize(tol, frame)
    \/ live_start
    \/ \E q \in AllQueries : LiveFace(q)

SpecMatch == InitLive /\ [][NextMatch]_vars

\* A further recognize_face call on the service service_recognize built:
\* the counters go on from where they stand.
recognize_again(frame) ==
    /\ total_recognitions > 0
    /\ total_recognitions < MaxCalls
    /\ image' = frame
    /\ last_result' = recognize_face(web_known_students, self_tolerance, frame)
    /\ total_recognitions' = total_recognitions + 1
    /\ successful_recognitions' =
           successful_recognitions + (IF last_result'.success THEN 1 ELSE 0)
    /\ last_recognition_time' = elapsed_time(last_result')
    /\ UNCHANGED <<doorVars, storeVars, liveVars, now, save_calls, connVars>>
    /\ UNCHANGED <<face_encoding, known_face_encodings, known_face_names,
                   known_face_ids, known_student_objs, load_pc, load_queue,
                   load_ret, reports, old_cache, observed, self_tolerance,
                   devVars>>

\* The frames of the calls that are counted: no face, and a valid face at
\* each query.
StatFrames == {NoFaceFrame} \cup MatchFrames

\* Calls on a service through the single-face path, and the multi-face
\* loop of live_camera_attendance on the service it builds.
NextStats ==
    \/ \E frame \in StatFrames :
           service_recognize(RECOGNITION_TOLERANCE, frame)
    \/ \E frame \in StatFrames : recognize_again(frame)
    \/ live_start
    \/ \E q \in Queries : LiveFace(q)

SpecStats == InitLive /\ [][NextStats]_vars

\* ------------------------------------ ConnectionManager, call by call

\* A handle is "none" (None), "open", or "closed": an object that is not
\* open, as a connect that failed or released the old one leaves behind.
Handles == {"none", "open", "closed"}

\* The handle a connect leaves when it fails before a new one is opened.
Stale(handle) == IF handle = "none" THEN "none" ELSE "closed"

\* connect_camera taking the camera for healthy as soon as it opens.
ConnectionManager_connect_camera_open_only(cam, outcome) ==
    IF outcome \in {"raise_open", "not_opened"}
    THEN [camera |-> Stale(cam), camera_ok |-> FALSE, ok |-> FALSE,
          msg |-> "Camera cannot be opened"]
    ELSE [camera |-> "open", camera_ok |-> TRUE, ok |-> TRUE,
          msg |-> "Camera ready"]

\* ConnectionManager.connect_camera.  outcome: VideoCapture raises, the
\* device does not open, the test read raises, it yields no frame, or it
\* yields a frame.  The old handle is released first.
ConnectionManager_connect_camera(cam, outcome) ==
    IF outcome = "raise_open"
    THEN [camera |-> Stale(cam), camera_ok |-> FALSE, ok |-> FALSE,
          msg |-> "Camera error"]
    ELSE IF outcome = "not_opened"
    THEN [camera |-> "closed", camera_ok |-> FALSE, ok |-> FALSE,
          msg |-> "Camera cannot be opened"]
    ELSE IF outcome = "raise_read"
    THEN [camera |-> "open", camera_ok |-> FALSE, ok |-> FALSE,
          msg |-> "Camera error"]
    ELSE IF outcome = "no_frame"
    THEN [camera |-> "open", camera_ok |-> FALSE, ok |-> FALSE,
          msg |-> "Camera opened but cannot capture"]
    ELSE [camera |-> "open", camera_ok |-> TRUE, ok |-> TRUE,
          msg |-> "Camera ready"]

\* ConnectionManager.check_camera: no handle, a handle that is not open,
\* or the outcome of the probe read.
ConnectionManager_check_camera(cam, outcome) ==
    IF cam = "none" THEN [camera_ok |-> FALSE, io |-> FALSE]
    ELSE IF cam = "closed" THEN [camera_ok |-> FALSE, io |-> TRUE]
    ELSE [camera_ok |-> outcome = "frame", io |-> TRUE]

\* capture_frame reading the device whatever the flag says.
capture_frame_unguarded(cam, cam_ok, outcome) ==
    IF cam = "open" /\ outcome = "frame"
    THEN [ret |-> "frame", camera_ok |-> cam_ok, io |-> TRUE, raised |-> FALSE]
    ELSE [ret |-> "none", camera_ok |-> FALSE, io |-> TRUE, raised |-> FALSE]

\* ConnectionManager.capture_frame: None at once while the flag is down;
\* otherwise one read, whose failure or exception clears the flag.
capture_frame(cam, cam_ok, outcome) ==
    IF ~cam_ok
    THEN [ret |-> "none", camera_ok |-> cam_ok, io |-> FALSE, raised |-> FALSE]
    ELSE IF cam = "open" /\ outcome = "frame"
    THEN [ret |-> "frame", camera_ok |-> cam_ok, io |-> TRUE, raised |-> FALSE]
    ELSE [ret |-> "none", camera_ok |-> FALSE, io |-> TRUE, raised |-> FALSE]

\* release_camera keeping the handle when release() raises.
release_camera_keeps_faulty(cam, raises) ==
    [camera |-> IF raises /\ cam # "none" THEN cam ELSE "none",
     camera_ok |-> FALSE, io |-> cam # "none", raised |-> FALSE]

\* ConnectionManager.release_camera: release() with its exception
\* swallowed, the handle dropped, the flag cleared.
release_camera(cam, raises) ==
    [camera |-> "none", camera_ok |-> FALSE, io |-> cam # "none",
     raised |-> FALSE]

\* ConnectionManager.connect_arduino.  outcome: no port is found, Serial
\* raises, the buffer reset or the PING write raises, or all succeed.  The
\* old handle is closed first; reset tells that reset_input_buffer ran.
ConnectionManager_connect_arduino(ard, outcome) ==
    IF outcome = "no_port"
    THEN [arduino |-> Stale(ard), arduino_ok |-> FALSE, ok |-> FALSE,
          msg |-> "Arduino not found", reset |-> FALSE]
    ELSE IF outcome = "raise_open"
    THEN [arduino |-> Stale(ard), arduino_ok |-> FALSE, ok |-> FALSE,
          msg |-> "Arduino error", reset |-> FALSE]
    ELSE IF outcome = "raise_ping"
    THEN [arduino |-> "open", arduino_ok |-> FALSE, ok |-> FALSE,
          msg |-> "Arduino error", reset |-> TRUE]
    ELSE [arduino |-> "open", arduino_ok |-> TRUE, ok |-> TRUE,
          msg |-> "Arduino connected", reset |-> TRUE]

\* ConnectionManager.check_arduino: no handle, a closed port, or the
\* outcome of the empty probe write.
ConnectionManager_check_arduino(ard, writeOk) ==
    IF ard = "none" THEN [arduino_ok |-> FALSE, io |-> FALSE]
    ELSE IF ard = "closed" THEN [arduino_ok |-> FALSE, io |-> TRUE]
    ELSE [arduino_ok |-> writeOk, io |-> TRUE]

\* send_command leaving the flag up after a write that raised.
ConnectionManager_send_command_keeps_flag(ard, ard_ok, writeOk) ==
    IF ~ard_ok \/ ard = "none"
    THEN [ret |-> FALSE, arduino_ok |-> ard_ok, io |-> FALSE]
    ELSE [ret |-> writeOk /\ ard = "open", arduino_ok |-> ard_ok, io |-> TRUE]

\* ConnectionManager.send_command: nothing is written unless the flag is
\* up; a write that raises clears the flag.
ConnectionManager_send_command(ard, ard_ok, writeOk) ==
    IF ~ard_ok \/ ard = "none"
    THEN [ret |-> FALSE, arduino_ok |-> ard_ok, io |-> FALSE]
    ELSE IF writeOk /\ ard = "open"
    THEN [ret |-> TRUE, arduino_ok |-> ard_ok, io |-> TRUE]
    ELSE [ret |-> FALSE, arduino_ok |-> FALSE, io |-> TRUE]

\* The lines the controller sends, and those read_arduino filters out.
EchoLines ==
    {"RESPONSE:DOOR_LOCKED", "RESPONSE:DOOR_UNLOCKED", "INFO:Door locked",
     "INFO:Door unlocked"}
Lines == EchoLines \cup {"MOTION", "STATUS:READY"}

\* A line in the input buffer: its text, and whether its newline is there.
Received(text, complete) == [text |-> text, complete |-> complete]

\* The first bytes of a motion line, and what follows them.
PartialLine == "MOT"
RestOf(text) == IF text = "MOT" THEN "ION" ELSE text
Completed(text) == IF text = "MOT" THEN "MOTION" ELSE text

\* ConnectionManager.read_arduino.  None at once while the flag is down.
\* Otherwise in_waiting is read; with bytes waiting, readline() takes the
\* first line: at once when its newline is in the buffer, and else after
\* waiting for the newline or for the port's read timeout (outcome
\* "timeout"), which yields the bytes received so far.  The line is
\* stripped, and None is returned for the four echo lines.  An exception
\* (outcome "raise") clears the flag.
read_arduino(ard, ard_ok, buf, outcome) ==
    LET line(text, rest, blocked) ==
            [ret |-> IF text \in EchoLines THEN "none" ELSE text,
             arduino_ok |-> ard_ok, serial_in |-> rest, io |-> TRUE,
             blocked |-> blocked, raised |-> FALSE]
    IN  IF ~ard_ok \/ ard = "none"
        THEN [ret |-> "none", arduino_ok |-> ard_ok, serial_in |-> buf,
              io |-> FALSE, blocked |-> FALSE, raised |-> FALSE]
        ELSE IF outcome = "raise" \/ ard = "closed"
        THEN [ret |-> "none", arduino_ok |-> FALSE, serial_in |-> buf,
              io |-> TRUE, blocked |-> FALSE, raised |-> FALSE]
        ELSE IF buf = <<>>
        THEN [ret |-> "none", arduino_ok |-> ard_ok, serial_in |-> buf,
              io |-> TRUE, blocked |-> FALSE, raised |-> FALSE]
        ELSE IF Head(buf).complete
        THEN line(Head(buf).text, Tail(buf), FALSE)
        ELSE IF outcome = "timeout"
        THEN line(Head(buf).text,
                  <<Received(RestOf(Head(buf).text), FALSE)>> \o Tail(buf),
                  TRUE)
        ELSE line(Completed(Head(buf).text), Tail(buf), TRUE)

\* ConnectionManager.close_arduino: close() with its exception swallowed,
\* the handle dropped, the flag cleared.
close_arduino(ard, raises) ==
    [arduino |-> "none", arduino_ok |-> FALSE, io |-> ard # "none",
     raised |-> FALSE]

\* The handles and flags as they are.
Before == Conn(camera, camera_ok, arduino, arduino_ok)

\* What no ConnectionManager call changes.
DevFrame ==
    /\ UNCHANGED <<script, state, attempt, recognized, last_frame, trace,
                   known_students>>
    /\ UNCHANGED <<storeVars, liveVars, now, save_calls, connVars>>
    /\ UNCHANGED <<face_encoding, known_face_encodings, known_face_names,
                   known_face_ids, known_student_objs, load_pc, load_queue,
                   load_ret, reports, old_cache, observed, recVars>>

ConnectCamera(outcome) ==
    /\ LET r == ConnectionManager_connect_camera(camera, outcome)
       IN  /\ camera' = r.camera
           /\ camera_ok' = r.camera_ok
           /\ last_call' = Call("connect_camera", "CAMERA",
                                <<r.ok, r.msg>>, TRUE, FALSE, FALSE, Before)
           /\ last_ok' = [last_ok EXCEPT !["CAMERA"] = r.ok]
    /\ UNCHANGED <<arduino, arduino_ok, serial_in>>
    /\ DevFrame

CheckCamera(outcome) ==
    /\ LET r == ConnectionManager_check_camera(camera, outcome)
       IN  /\ camera_ok' = r.camera_ok
           /\ last_call' = Call("check_camera", "CAMERA", r.camera_ok, r.io,
                                FALSE, FALSE, Before)
           /\ last_ok' = [last_ok EXCEPT !["CAMERA"] = r.camera_ok]
    /\ UNCHANGED <<camera, arduino, arduino_ok, serial_in>>
    /\ DevFrame

CaptureFrame(outcome) ==
    /\ LET r == capture_frame(camera, camera_ok, outcome)
       IN  /\ camera_ok' = r.camera_ok
           /\ last_call' = Call("capture_frame", "CAMERA", r.ret, r.io,
                                FALSE, r.raised, Before)
           /\ last_ok' = IF r.io
                         THEN [last_ok EXCEPT !["CAMERA"] = r.ret = "frame"]
                         ELSE last_ok
    /\ UNCHANGED <<camera, arduino, arduino_ok, serial_in>>
    /\ DevFrame

ReleaseCamera(raises) ==
    /\ LET r == release_camera(camera, raises)
       IN  /\ camera' = r.camera
           /\ camera_ok' = r.camera_ok
           /\ last_call' = Call("release_camera", "CAMERA", "none", r.io,
                                FALSE, r.raised, Before)
           /\ last_ok' = [last_ok EXCEPT !["CAMERA"] = FALSE]
    /\ UNCHANGED <<arduino, arduino_ok, serial_in>>
    /\ DevFrame

ConnectArduino(outcome) ==
    /\ LET r == ConnectionManager_connect_arduino(arduino, outcome)
       IN  /\ arduino' = r.arduino
           /\ arduino_ok' = r.arduino_ok
           /\ serial_in' = IF r.reset THEN <<>> ELSE serial_in
           /\ last_call' = Call("connect_arduino", "ARDUINO",
                                <<r.ok, r.msg>>, TRUE, FALSE, FALSE, Before)
           /\ last_ok' = [last_ok EXCEPT !["ARDUINO"] = r.ok]
    /\ UNCHANGED <<camera, camera_ok>>
    /\ DevFrame

CheckArduino(writeOk) ==
    /\ LET r == ConnectionManager_check_arduino(arduino, writeOk)
       IN  /\ arduino_ok' = r.arduino_ok
           /\ last_call' = Call("check_arduino", "ARDUINO", r.arduino_ok,
                                r.io, FALSE, FALSE, Before)
           /\ last_ok' = [last_ok EXCEPT !["ARDUINO"] = r.arduino_ok]
    /\ UNCHANGED <<camera, camera_ok, arduino, serial_in>>
    /\ DevFrame

SendCommand(cmd, writeOk) ==
    /\ LET r == ConnectionManager_send_command(arduino, arduino_ok, writeOk)
       IN  /\ arduino_ok' = r.arduino_ok
           /\ last_call' = Call("send_command", "ARDUINO", <<cmd, r.ret>>,
                                r.io, FALSE, FALSE, Before)
           /\ last_ok' = IF r.io
                         THEN [last_ok EXCEPT !["ARDUINO"] = r.ret]
                         ELSE last_ok
    /\ UNCHANGED <<camera, camera_ok, arduino, serial_in>>
    /\ DevFrame

ReadArduino(outcome) ==
    /\ LET r == read_arduino(arduino, arduino_ok, serial_in, outcome)
       IN  /\ arduino_ok' = r.arduino_ok
           /\ serial_in' = r.serial_in
           /\ last_call' = Call("read_arduino", "ARDUINO", r.ret, r.io,
                                r.blocked, r.raised, Before)
           /\ last_ok' = IF r.io
                         THEN [last_ok EXCEPT !["ARDUINO"] = r.arduino_ok]
                         ELSE last_ok
    /\ UNCHANGED <<camera, camera_ok, arduino>>
    /\ DevFrame

CloseArduino(raises) ==
    /\ LET r == close_arduino(arduino, raises)
       IN  /\ arduino' = r.arduino
           /\ arduino_ok' = r.arduino_ok
           /\ last_call' = Call("close_arduino", "ARDUINO", "none", r.io,
                                FALSE, r.raised, Before)
           /\ last_ok' = [last_ok EXCEPT !["ARDUINO"] = FALSE]
    /\ UNCHANGED <<camera, camera_ok, serial_in>>
    /\ DevFrame

\* ConnectionManager.cleanup: release_camera, then close_arduino.
Cleanup(camRaises, ardRaises) ==
    /\ LET c == release_camera(camera, camRaises)
           a == close_arduino(arduino, ardRaises)
       IN  /\ camera' = c.camera
           /\ camera_ok' = c.camera_ok
           /\ arduino' = a.arduino
           /\ arduino_ok' = a.arduino_ok
           /\ last_call' = Call("cleanup", "BOTH",
                                <<camRaises /\ c.io, ardRaises /\ a.io>>,
                                c.io \/ a.io, FALSE,
                                c.raised \/ a.raised, Before)
           /\ last_ok' = [d \in {"CAMERA", "ARDUINO"} |-> FALSE]
    /\ UNCHANGED serial_in
    /\ DevFrame

\* The controller sends a line, or the first bytes of a motion line, or
\* the rest of the line it began.
ArduinoSends(text) ==
    /\ arduino = "open"
    /\ IF serial_in # <<>> /\ ~serial_in[Len(serial_in)].complete
       THEN serial_in' = [serial_in EXCEPT ![Len(serial_in)].complete = TRUE,
                                           ![Len(serial_in)].text =
                                               Completed(@)]
       ELSE /\ Len(serial_in) < MaxQueued
            /\ serial_in' = Append(serial_in,
                                   Received(text, text # PartialLine))
    /\ UNCHANGED <<camera, camera_ok, arduino, arduino_ok, last_call, last_ok>>
    /\ DevFrame

CameraOutcomes == {"raise_open", "not_opened", "raise_read", "no_frame", "frame"}
ArduinoOutcomes == {"no_port", "raise_open", "raise_ping", "ok"}

\* The functions of a ConnectionManager called in any order, the serial
\* buffer staying empty.
NextDevices ==
    \/ \E outcome \in CameraOutcomes : ConnectCamera(outcome)
    \/ \E outcome \in {"raise", "no_frame", "frame"} : CheckCamera(outcome)
    \/ \E outcome \in {"raise", "no_frame", "frame"} : CaptureFrame(outcome)
    \/ \E raises \in BOOLEAN : ReleaseCamera(raises)
    \/ \E outcome \in ArduinoOutcomes : ConnectArduino(outcome)
    \/ \E writeOk \in BOOLEAN : CheckArduino(writeOk)
    \/ \E cmd \in {"UNLOCK", "LOCK"} : \E writeOk \in BOOLEAN :
           SendCommand(cmd, writeOk)
    \/ \E outcome \in {"ok", "raise"} : ReadArduino(outcome)
    \/ \E raises \in BOOLEAN : CloseArduino(raises)
    \/ \E camRaises, ardRaises \in BOOLEAN : Cleanup(camRaises, ardRaises)

InitDevices == Init /\ script = "door_system" /\ students = [s \in Students |-> "active"]

SpecDevices == InitDevices /\ [][NextDevices]_vars

\* The controller and its serial line: what it sends, and the polls of run.
NextSerial ==
    \/ \E outcome \in ArduinoOutcomes : ConnectArduino(outcome)
    \/ \E writeOk \in BOOLEAN : SendCommand("UNLOCK", writeOk)
    \/ \E outcome \in {"ok", "raise", "timeout"} : ReadArduino(outcome)
    \/ \E text \in Lines \cup {PartialLine} : ArduinoSends(text)

SpecSerial == InitDevices /\ [][NextSerial]_vars

\* ------------------------------------ the cache reload, one step at a time

\* The blobs a student's face_encoding field may hold: two encodings, the
\* empty list "[]", and text that is not JSON.  The registration view stores
\* whatever non-empty string was posted.
Blobs(s) ==
    {StoredEncodings(s, 2),
     [ok |-> TRUE, encs |-> <<>>],
     [ok |-> FALSE, encs |-> <<>>]}

RECURSIVE SumSeq(_)
SumSeq(xs) == IF xs = <<>> THEN 0 ELSE Head(xs) + SumSeq(Tail(xs))

\* calculate_average_encoding adding the encodings up without dividing.
calculate_average_encoding_sum(encodings) == SumSeq(encodings)

\* calculate_average_encoding taking the first encoding for the mean.
calculate_average_encoding_first(encodings) == Head(encodings)

\* FaceRecognitionService.calculate_average_encoding: np.mean over the list.
calculate_average_encoding(encodings) == SumSeq(encodings) \div Len(encodings)

\* The store is written: is_active is flipped (toggle_student_status), or
\* a face_encoding blob is stored (registration, admin form).  The reload
\* the views start afterwards is the steps below.
StoreWrite(pk, blob) ==
    /\ load_pc = "idle"
    /\ \/ /\ students' = [students EXCEPT
                             ![pk] = IF @ = "active" THEN "inactive" ELSE "active"]
          /\ UNCHANGED face_encoding
       \/ /\ face_encoding[pk] # blob
          /\ face_encoding' = [face_encoding EXCEPT ![pk] = blob]
          /\ UNCHANGED students
    /\ UNCHANGED <<doorVars, attendance, web_known_students, liveVars, now,
                   save_calls, connVars>>
    /\ UNCHANGED <<known_face_encodings, known_face_names, known_face_ids,
                   known_student_objs, load_pc, load_queue, load_ret, reports,
                   old_cache, observed, recVars, devVars>>

\* load_registered_faces, the four assignments that clear the cache and the
\* query of the active students, one statement per step.
LoadClear ==
    /\ \/ /\ load_pc = "idle"
          /\ old_cache' = Cache(known_face_encodings, known_face_names,
                                known_face_ids, known_student_objs)
          /\ known_face_encodings' = <<>>
          /\ reports' = <<>>
          /\ load_pc' = "clear_names"
          /\ UNCHANGED <<known_face_names, known_face_ids, known_student_objs,
                         load_queue>>
       \/ /\ load_pc = "clear_names"
          /\ known_face_names' = <<>>
          /\ load_pc' = "clear_ids"
          /\ UNCHANGED <<known_face_encodings, known_face_ids,
                         known_student_objs, load_queue, reports, old_cache>>
       \/ /\ load_pc = "clear_ids"
          /\ known_face_ids' = <<>>
          /\ load_pc' = "clear_students"
          /\ UNCHANGED <<known_face_encodings, known_face_names,
                         known_student_objs, load_queue, reports, old_cache>>
       \/ /\ load_pc = "clear_students"
          /\ known_student_objs' = <<>>
          /\ load_pc' = "query"
          /\ UNCHANGED <<known_face_encodings, known_face_names,
                         known_face_ids, load_queue, reports, old_cache>>
       \/ /\ load_pc = "query"
          /\ load_queue' = ActiveStudents(students)
          /\ load_pc' = "student"
          /\ UNCHANGED <<known_face_encodings, known_face_names,
                         known_face_ids, known_student_objs, reports, old_cache>>
    /\ UNCHANGED <<doorVars, storeVars, liveVars, now, save_calls, connVars>>
    /\ UNCHANGED <<face_encoding, load_ret, observed, recVars, devVars>>

\* load_registered_faces, the loop over the students, one statement per
\* step: json_to_encodings raising is caught and printed; an empty list is
\* passed over by `if encodings:`; otherwise the mean is appended, then the
\* name, the id and the student.  After the last student the length of
\* known_face_encodings is returned.
LoadStudent ==
    /\ \/ /\ load_pc = "student"
          /\ load_queue = <<>>
          /\ load_ret' = Len(known_face_encodings)
          /\ load_pc' = "idle"
          /\ old_cache' = EmptyCache
          /\ observed' = NoObservation
          /\ UNCHANGED <<known_face_encodings, known_face_names,
                         known_face_ids, known_student_objs, load_queue, reports>>
       \/ /\ load_pc = "student"
          /\ load_queue # <<>>
          /\ LET student == Head(load_queue)
                 blob == face_encoding[student]
             IN  IF ~blob.ok
                 THEN /\ reports' = Append(reports, student)
                      /\ load_queue' = Tail(load_queue)
                      /\ UNCHANGED <<known_face_encodings, load_pc>>
                      /\ UNCHANGED <<old_cache, observed>>
                 ELSE IF blob.encs = <<>>
                 THEN /\ load_queue' = Tail(load_queue)
                      /\ UNCHANGED <<known_face_encodings, load_pc, reports>>
                      /\ UNCHANGED <<old_cache, observed>>
                 ELSE /\ known_face_encodings' =
                             Append(known_face_encodings,
                                    calculate_average_encoding(blob.encs))
                      /\ load_pc' = "append_names"
                      /\ UNCHANGED <<load_queue, reports>>
                      /\ UNCHANGED <<old_cache, observed>>
          /\ UNCHANGED <<known_face_names, known_face_ids, known_student_objs,
                         load_ret>>
       \/ /\ load_pc = "append_names"
          /\ known_face_names' = Append(known_face_names, Head(load_queue))
          /\ load_pc' = "append_ids"
          /\ UNCHANGED <<known_face_encodings, known_face_ids,
                         known_student_objs, load_queue, load_ret, reports,
                         old_cache, observed>>
       \/ /\ load_pc = "append_ids"
          /\ known_face_ids' = Append(known_face_ids, Head(load_queue))
          /\ load_pc' = "append_students"
          /\ UNCHANGED <<known_face_encodings, known_face_names,
                         known_student_objs, load_queue, load_ret, reports,
                         old_cache, observed>>
       \/ /\ load_pc = "append_students"
          /\ known_student_objs' = Append(known_student_objs, Head(load_queue))
          /\ load_queue' = Tail(load_queue)
          /\ load_pc' = "student"
          /\ UNCHANGED <<known_face_encodings, known_face_names,
                         known_face_ids, load_ret, reports, old_cache, observed>>
    /\ UNCHANGED <<doorVars, storeVars, liveVars, now, save_calls, connVars>>
    /\ UNCHANGED <<face_encoding, recVars, devVars>>

\* A recognize_face call of another thread on the same instance reads the
\* lists; nothing in the service keeps it from running between two
\* statements of a reload.
ConcurrentRecognize ==
    /\ load_pc # "idle"
    /\ observed' = [seen |-> TRUE, during |-> load_pc,
                    cache |-> Cache(known_face_encodings, known_face_names,
                                    known_face_ids, known_student_objs)]
    /\ UNCHANGED <<doorVars, storeVars, liveVars, now, save_calls, connVars>>
    /\ UNCHANGED <<face_encoding, known_face_encodings, known_face_names,
                   known_face_ids, known_student_objs, load_pc, load_queue,
                   load_ret, reports, old_cache, recVars, devVars>>

NextCache ==
    \/ \E pk \in Students : \E blob \in Blobs(pk) : StoreWrite(pk, blob)
    \/ LoadClear
    \/ LoadStudent
    \/ ConcurrentRecognize

\* The scripts play no part in a reload.
InitCache == Init /\ script = "door_system"

SpecCache == InitCache /\ [][NextCache]_vars

\* ------------------------------------------------- reading a motion event

\* Positions in trace of the calls of send_command(cmd).
Cmds(cmd) ==
    {i \in DOMAIN trace : trace[i].op = "send_command" /\ trace[i].cmd = cmd}

\* Positions in trace of the frame captures, the recognitions, and the
\* recognitions that returned a student.
Captures == {i \in DOMAIN trace : trace[i].op = "capture"}
Recognitions == {i \in DOMAIN trace : trace[i].op = "recognize"}
Matches == {i \in Recognitions : trace[i].ok}

\* Positions in trace of the grant and deny commands.
Decisions == Cmds("UNLOCK") \cup Cmds("DENIED")

\* The session is between initialize and cleanup.
Running == state \in {"AwaitingMotion", "Recognizing", "Granting", "Denying"}

\* The 'success' rows of student s whose timestamp falls on day d.
SuccessRows(att, s, d) ==
    {r \in att : r.student = s /\ Day(r.timestamp) = d /\ r.entry_type = "success"}

\* ------------------------------------------------------------------ claims

\* C1: in the door flow of both scripts an UNLOCK command is issued only
\* after a recognition of the same motion event returned a student, with no
\* error and a best gallery distance within RECOGNITION_TOLERANCE; a
\* recognition that ended with an error (no face, face too small, no
\* encoding, no match, exception, empty gallery) returns no student.
C1_UnlockOnlyAfterMatch ==
    /\ \A i \in DOMAIN trace :
           trace[i].cmd = "UNLOCK" =>
               \E j \in Matches :
                   /\ j < i
                   /\ trace[j].student \in Students
                   /\ trace[j].cmd = ""
                   /\ trace[j].dist <= RECOGNITION_TOLERANCE
    /\ \A j \in Recognitions :
           (trace[j].cmd # "" \/ trace[j].dist > RECOGNITION_TOLERANCE)
               => ~trace[j].ok /\ trace[j].student = None

\* C1 witness: an UNLOCK was written to the controller in an event whose
\* first attempt found no match.
C1_UnlockAfterRetry ==
    /\ \E i \in DOMAIN trace :
           trace[i].op = "serial_write" /\ trace[i].cmd = "UNLOCK" /\ trace[i].ok
    /\ \E j \in Recognitions : trace[j].cmd = "No match found"

\* C2: for every student and every day the attendance store holds at most
\* one 'success' row of that student with a timestamp on that day.
C2_OneSuccessPerDay ==
    \A s \in Students : \A d \in Day(StartTime)..Day(EndTime) :
        Cardinality(SuccessRows(attendance, s, d)) <= 1

\* C3: when save_attendance is called twice in a row for the same student
\* on the same day, the store answers both calls and holds no 'success' row
\* of that student and day before the first, then the first call creates
\* the row and returns true, the second returns false and leaves the store
\* unchanged, and exactly one such row is stored.
C3_SecondCallWritesNothing ==
    (/\ Len(save_calls) = 2
     /\ save_calls[1].student = save_calls[2].student
     /\ save_calls[1].day = save_calls[2].day
     /\ save_calls[1].dbOk /\ save_calls[2].dbOk
     /\ ~save_calls[1].had)
        => /\ save_calls[1].ret /\ save_calls[1].changed
           /\ ~save_calls[2].ret /\ ~save_calls[2].changed
           /\ Cardinality(SuccessRows(attendance, save_calls[2].student,
                                      save_calls[2].day)) = 1

\* C3 witness: two answered calls for the same student on the day after
\* midnight, the first of which found no row, with the clock advanced
\* since the row was written.
C3_CalledTwiceSameDay ==
    /\ Len(save_calls) = 2
    /\ save_calls[1].student = save_calls[2].student
    /\ save_calls[1].day = save_calls[2].day
    /\ save_calls[1].dbOk /\ save_calls[2].dbOk
    /\ ~save_calls[1].had
    /\ save_calls[2].day = Day(EndTime)
    /\ \E r \in attendance :
           r.student = save_calls[2].student /\ r.timestamp < now

\* C4: while the door session runs, its gallery holds no student that is
\* inactive or absent in the identity store.
C4_GalleryHoldsOnlyActive ==
    Running =>
        \A i \in DOMAIN known_students : students[known_students[i]] = "active"

\* C5: in the multi-face flow, a match of a student that matched less than
\* ATTENDANCE_COOLDOWN seconds before is reported with status 'already' or
\* 'cooldown'.
C5_RepeatMatchReported ==
    repeat_match => detected_face.status \in {"already", "cooldown"}

C7_StopAtFirstMatch ==
    /\ Cardinality(Captures) <= RECOGNITION_ATTEMPTS
    /\ Cardinality(Recognitions) <= RECOGNITION_ATTEMPTS
    /\ \A m \in Matches : \A j \in Captures \cup Recognitions : j <= m
    /\ state = "Granting" => \E m \in Matches : recognized = trace[m].student
    /\ \A i \in DOMAIN trace :
           trace[i].op = "save_attendance" =>
               \E m \in Matches : trace[i].student = trace[m].student

\* C7 witness: the second attempt of an event matched and its student is
\* about to be granted.
C7_MatchOnSecondAttempt ==
    /\ state = "Granting"
    /\ Cardinality(Recognitions) = 2
    /\ \E m \in Matches : recognized = trace[m].student /\ trace[m].dist > 0

\* C8 (as amended): a motion signal taken while the camera is flagged
\* healthy (door.py keeps no such flag) ends with exactly one of the grant
\* and deny commands issued, and no command is issued before the attempt
\* loop has ended; the handler is then back in AwaitingMotion unless the
\* session was stopped.
C8_OneDecisionWhenCameraHealthy ==
    /\ (state = "AwaitingMotion" /\ trace # <<>> /\ trace[1].ok)
           => Cardinality(Decisions) = 1
    /\ state \in {"Recognizing", "Granting", "Denying"} => Decisions = {}
    /\ Decisions # {} => state \in {"AwaitingMotion", "Stopped"}

\* C8 as stated: every motion signal taken in AwaitingMotion ends with
\* exactly one of the grant and deny commands issued.
C8_EveryMotionDecided ==
    (state = "AwaitingMotion" /\ trace # <<>>) => Cardinality(Decisions) = 1

\* C8 witness: an event that was taken with the camera healthy lost the
\* camera during the capture and ended with the deny command.
C8_DeniedAfterCameraLoss ==
    /\ state = "AwaitingMotion"
    /\ script = "door_system"
    /\ trace # <<>> /\ trace[1].ok
    /\ ~camera_ok
    /\ Cardinality(Cmds("DENIED")) = 1

\* C9: in the grant branch the unlock command is issued before
\* save_attendance is entered, each exactly once; when a 'success' row of
\* the student exists for today, the unlock command is still issued and the
\* store is left unchanged; the store changes only when no such row exists.
C9_UnlockBeforeGuardedWrite ==
    [][(state = "Granting" /\ state' = "AwaitingMotion") =>
        LET evs == SubSeq(trace', Len(trace) + 1, Len(trace'))
            unlocks == {i \in DOMAIN evs :
                           evs[i].op = "send_command" /\ evs[i].cmd = "UNLOCK"}
            saves == {i \in DOMAIN evs : evs[i].op = "save_attendance"}
            had == ExistsSuccess(attendance, recognized, Day(now))
        IN  /\ Cardinality(unlocks) = 1
            /\ Cardinality(saves) = 1
            /\ \A u \in unlocks : \A w \in saves : u < w
            /\ had => /\ attendance' = attendance
                      /\ \A w \in saves : evs[w].cmd # "created"
            /\ attendance' # attendance => ~had
      ]_vars

\* C9 witness: an event unlocked the door for a student whose row of today
\* already existed, and save_attendance wrote nothing.
C9_UnlockedAlreadyMarked ==
    /\ state = "AwaitingMotion"
    /\ \E i, j \in DOMAIN trace :
           /\ i < j
           /\ trace[i].op = "serial_write" /\ trace[i].cmd = "UNLOCK" /\ trace[i].ok
           /\ trace[j].op = "save_attendance" /\ trace[j].cmd = "exists"
           /\ Cardinality(SuccessRows(attendance, trace[j].student, Day(now))) = 1

\* C10: an event that ended with the deny command has written the denial
\* log entry, and has persisted a frame as evidence when one of its
\* captures returned a frame.
C10_EvidencePersisted ==
    (state = "AwaitingMotion" /\ Cmds("DENIED") # {}) =>
        /\ \E i \in DOMAIN trace :
               trace[i].op = "log_system"
                   /\ trace[i].cmd = "warning:Access denied: Unknown face"
        /\ (\E c \in Captures : trace[c].ok)
               => \E i \in DOMAIN trace : trace[i].op = "imwrite"

\* C11: when a door session has shut down, a LOCK command was issued during
\* cleanup, before the camera was released and before the controller was
\* closed.
C11_LockBeforeRelease ==
    state = "Stopped" =>
        \E l \in DOMAIN shutdown :
            /\ shutdown[l] = "LOCK"
            /\ \A r \in DOMAIN shutdown :
                   shutdown[r] \in {"release_camera", "close_arduino"} => l < r

\* ------------------------------------------- reading a connection check

Devices == {"CAMERA", "ARDUINO"}

\* Positions in pause_trace of the effects op on device.
PPos(op, device) ==
    {i \in DOMAIN pause_trace :
        pause_trace[i].op = op /\ pause_trace[i].device = device}

\* The devices whose probe failed in the latest check, and those a connect
\* attempt has brought back since.
FailedDevices == {d \in Devices : \E i \in PPos("check", d) : ~pause_trace[i].ok}
Reconnected == {d \in Devices : \E i \in PPos("connect", d) : pause_trace[i].ok}

\* C12: a failed probe of the periodic check puts the session in Paused;
\* it is out of Paused and not stopped only when every device that failed
\* has been reconnected; while it is Paused no step touches the motion
\* event or the attendance store, and the next state is Paused,
\* AwaitingMotion or Stopped.
C12_PausedUntilReconnected ==
    /\ [](/\ (FailedDevices # {} /\ state \notin {"Paused", "Stopped"})
                 => /\ FailedDevices \subseteq Reconnected
                    /\ PPos("resumed", "") # {}
          /\ state = "Paused" => FailedDevices # {} /\ pending # <<>>)
    /\ [][state = "Paused" =>
              /\ trace' = trace
              /\ attendance' = attendance
              /\ state' \in {"Paused", "AwaitingMotion", "Stopped"}
              /\ state' = "AwaitingMotion" => pending' = <<>>]_vars

\* C12 witness: both devices failed their probe, both were reconnected, and
\* the resumed session is handling a motion event.
C12_ResumedAfterBothFailed ==
    /\ FailedDevices = Devices
    /\ PPos("resumed", "") # {}
    /\ state = "Recognizing"

\* C13: when the controller failed its probe and the session has resumed,
\* the controller was logged as disconnected once, then between one and
\* MAX_RECONNECT_ATTEMPTS connects were tried, the last of them the one
\* that succeeded, then the reconnect was logged once, and only then did the
\* session resume.
C13_ControllerReconnectLogged ==
    ("ARDUINO" \in FailedDevices /\ PPos("resumed", "") # {}) =>
        LET d == PPos("log_disconnected", "ARDUINO")
            c == PPos("connect", "ARDUINO")
            r == PPos("log_reconnected", "ARDUINO")
        IN  /\ Cardinality(d) = 1
            /\ Cardinality(r) = 1
            /\ c # {}
            /\ Cardinality(c) <= MAX_RECONNECT_ATTEMPTS
            /\ \A i \in d : \A j \in c : i < j
            /\ \A j \in c : pause_trace[j].ok <=> (\A k \in c : k <= j)
            /\ \A j \in c : \A k \in r : j < k
            /\ \A k \in r : \A m \in PPos("resumed", "") : k < m

\* C13 witness: only the controller failed, and it came back on the last
\* of the MAX_RECONNECT_ATTEMPTS attempts.
C13_ControllerBackOnLastAttempt ==
    /\ FailedDevices = {"ARDUINO"}
    /\ PPos("resumed", "") # {}
    /\ Cardinality(PPos("connect", "ARDUINO")) = MAX_RECONNECT_ATTEMPTS
    /\ state = "AwaitingMotion"
    /\ arduino_ok

\* C14: attempt_reconnect makes at most MAX_RECONNECT_ATTEMPTS connect
\* attempts for a device; an attempt that succeeds is the last one and is
\* followed by the return of true; false is returned only after exactly
\* MAX_RECONNECT_ATTEMPTS attempts, all failed; the loop index stays below
\* MAX_RECONNECT_ATTEMPTS.
C14_ReconnectBounded ==
    /\ reconnect_attempt < MAX_RECONNECT_ATTEMPTS
    /\ \A d \in Devices :
           LET c == PPos("connect", d)
               ret == PPos("return", d)
           IN  /\ Cardinality(c) <= MAX_RECONNECT_ATTEMPTS
               /\ Cardinality(ret) <= 1
               /\ \A i \in c : pause_trace[i].ok =>
                      /\ \A j \in c : j <= i
                      /\ \E k \in ret : k > i /\ pause_trace[k].ok
               /\ \A k \in ret :
                      /\ \A i \in c : i < k
                      /\ IF pause_trace[k].ok
                         THEN \E i \in c : pause_trace[i].ok
                         ELSE /\ Cardinality(c) = MAX_RECONNECT_ATTEMPTS
                              /\ \A i \in c : ~pause_trace[i].ok

\* C14 witness: attempt_reconnect has returned false for the controller
\* after the camera was reconnected at its second attempt.
C14_GaveUpOnController ==
    /\ \E k \in PPos("return", "ARDUINO") : ~pause_trace[k].ok
    /\ Cardinality(PPos("connect", "CAMERA")) = 2
    /\ \E k \in PPos("return", "CAMERA") : pause_trace[k].ok

\* C15: once attempt_reconnect has returned false for a device, that
\* return is the last effect of the check: the session is stopped, cleanup
\* has released the camera and closed the controller, and a device that
\* was still waiting for its turn was neither logged nor reconnected.
C15_ExhaustionStops ==
    \A d \in Devices : \A k \in PPos("return", d) :
        ~pause_trace[k].ok =>
            /\ state = "Stopped"
            /\ k = Len(pause_trace)
            /\ camera = "none" /\ arduino = "none"
            /\ ~camera_ok /\ ~arduino_ok
            /\ \E i \in DOMAIN shutdown : shutdown[i] = "release_camera"
            /\ \E i \in DOMAIN shutdown : shutdown[i] = "close_arduino"
            /\ d = "CAMERA" =>
                   /\ PPos("connect", "ARDUINO") = {}
                   /\ PPos("log_disconnected", "ARDUINO") = {}

\* C15 witness: both devices failed their probe and the camera could not
\* be reconnected; the session is stopped with the controller untried.
C15_StoppedWithControllerUntried ==
    /\ FailedDevices = Devices
    /\ \E k \in PPos("return", "CAMERA") : ~pause_trace[k].ok
    /\ state = "Stopped"
    /\ pending = <<"CAMERA", "ARDUINO">>

\* ---------------------------------------------------- reading a reload

\* The four lists hold one entry per id of ids, in that order.
CompleteFor(cache, ids) ==
    /\ cache.ids = ids
    /\ cache.names = ids
    /\ cache.students = ids
    /\ cache.encodings = [i \in 1..Len(ids) |-> Embedding(ids[i])]

\* The reload has visited every student and is about to return.
LoadAboutToReturn == load_pc = "student" /\ load_queue = <<>>

\* The active students the reload passed over.
Skipped ==
    {s \in Students :
        /\ students[s] = "active"
        /\ \A i \in DOMAIN known_face_ids : known_face_ids[i] # s}

\* C16: a recognition that runs while a reload is in progress reads
\* either the complete gallery from before the reload or the complete new
\* one, and in every case four lists of the same length.
C16_RecognitionSeesCompleteGallery ==
    (observed.seen /\ observed.during # "idle") =>
        /\ Len(observed.cache.encodings) = Len(observed.cache.ids)
        /\ Len(observed.cache.names) = Len(observed.cache.ids)
        /\ Len(observed.cache.students) = Len(observed.cache.ids)
        /\ \/ observed.cache = old_cache
           \/ CompleteFor(observed.cache, load_registered_faces(students))

C18_EverySkipReported ==
    LoadAboutToReturn =>
        \A s \in Skipped : \E i \in DOMAIN reports : reports[i] = s

\* ------------------------------------------------ reading a recognition

\* The failure conditions of a call in the order of the contract, each
\* with its error text; the distance condition is read only for a frame
\* that has a valid, encodable face and a gallery to compare with.
FailureConditions(cache, tol, frame) ==
    <<[applies |-> cache = <<>>, error |-> "No registered faces in cache"],
      [applies |-> ~frame.face, error |-> "No face detected"],
      [applies |-> frame.width < min_face_size \/ frame.height < min_face_size,
       error |-> "Face too small or invalid"],
      [applies |-> ~frame.encodable,
       error |-> "Could not generate face encoding"],
      [applies |-> /\ cache # <<>>
                   /\ \A i \in DOMAIN cache :
                          Abs(Embedding(cache[i]) - frame.q) > tol,
       error |-> "No match found"]>>

\* C19: no active student means an empty gallery after the reload, and a
\* recognize_face call on an empty gallery fails with 'No registered faces
\* in cache' for every frame, having made no library call on the frame.
C19_EmptyGalleryFailsFast ==
    /\ (\A s \in Students : students[s] # "active") => web_known_students = <<>>
    /\ (last_result # NoResult /\ web_known_students = <<>>) =>
           /\ ~last_result.success
           /\ last_result.student = None
           /\ last_result.error = "No registered faces in cache"
           /\ last_result.calls = <<>>

\* C19 witness: recognize_face was called on an empty gallery with a frame
\* that shows a valid, encodable face of the first student.
C19_GoodFaceEmptyGallery ==
    /\ last_result # NoResult
    /\ web_known_students = <<>>
    /\ image = Frame("none", TRUE, min_face_size, min_face_size, TRUE, Embedding(1))

\* C20: unless the frame makes the service raise, the error of a result is
\* that of the first failure condition that applies, and the call succeeds
\* with no error exactly when none applies; a result never has success with
\* an error, nor failure without one.
C20_FirstFailureWins ==
    last_result # NoResult =>
        LET fc == FailureConditions(web_known_students, self_tolerance, image)
            applying == {i \in DOMAIN fc : fc[i].applies}
        IN  /\ last_result.success <=> last_result.error = ""
            /\ last_result.success => last_result.student # None
            /\ (image.fault = "none" \/ web_known_students = <<>>) =>
                   /\ last_result.success <=> applying = {}
                   /\ \A i \in applying :
                          (\A j \in applying : i <= j) => last_result.error = fc[i].error

\* C20 witness: a call on a loaded gallery with a frame whose face is too
\* small, cannot be encoded and is far from every student.
C20_SeveralFailuresApply ==
    /\ last_result # NoResult
    /\ web_known_students # <<>>
    /\ image.fault = "none" /\ image.face /\ ~image.encodable
    /\ image.width < min_face_size
    /\ image.q = Embedding(1) - RECOGNITION_TOLERANCE - 1
    /\ self_tolerance = RECOGNITION_TOLERANCE
    /\ web_known_students = <<1>>

\* The least distance between embedding q and the entries of cache.
MinDistance(cache, q) ==
    CHOOSE d \in {Abs(Embedding(cache[i]) - q) : i \in DOMAIN cache} :
        \A i \in DOMAIN cache : d <= Abs(Embedding(cache[i]) - q)

\* The latest call got as far as comparing the face with the gallery.
ReachedMatching ==
    /\ last_result # NoResult
    /\ web_known_students # <<>>
    /\ image.fault = "none"
    /\ image.face
    /\ image.width >= min_face_size /\ image.height >= min_face_size
    /\ image.encodable

\* The latest call ran into the library call that raises on its frame.
ReachedFault ==
    /\ last_result # NoResult
    /\ web_known_students # <<>>
    /\ \/ image.fault \in {"convert", "detect"}
       \/ /\ image.fault \in {"encode", "match"}
          /\ image.face
          /\ image.width >= min_face_size /\ image.height >= min_face_size
          /\ image.fault = "match" => image.encodable

\* C21: recognize_face always returns its result and never raises; a call
\* that fails carries an error reason, and a call in which the conversion,
\* the detection, the encoding or the matching raised returns
\* success = false, no student, and the exception as its error.
C21_FaultsReturnedAsData ==
    last_result # NoResult =>
        /\ ~last_result.raised
        /\ ~last_result.success => last_result.error # ""
        /\ ReachedFault =>
               /\ ~last_result.success
               /\ last_result.student = None
               /\ last_result.error = "exception"

\* C21 witness: face_distance raised on a frame with a valid, encodable
\* face of the first student, who is in the gallery.
C21_MatchingRaised ==
    /\ ReachedFault
    /\ image.fault = "match"
    /\ image.q = Embedding(1)
    /\ web_known_students[1] = 1

\* C22: in the single-face path a call that reaches the matching step
\* succeeds exactly when the minimum gallery distance is at most the
\* service's tolerance, and in the multi-face path a face is given a
\* student exactly when the minimum gallery distance is at most
\* RECOGNITION_TOLERANCE.
C22_InclusiveTolerance ==
    /\ [](ReachedMatching =>
              (last_result.success <=>
                  MinDistance(web_known_students, image.q) <= self_tolerance))
    /\ [][\A q \in AllQueries :
              (LiveFace(q) /\ known_students # <<>>) =>
                  (detected_face'.student # None <=>
                      MinDistance(known_students, q) <= RECOGNITION_TOLERANCE)]_vars

\* C22 witness: both paths have accepted a face at distance exactly the
\* tolerance.
C22_AcceptedAtTolerance ==
    /\ ReachedMatching
    /\ last_result.success
    /\ last_result.distance = self_tolerance
    /\ self_tolerance = DEFAULT_TOLERANCE
    /\ detected_face.student # None
    /\ detected_face.confidence = 100 - RECOGNITION_TOLERANCE

\* C23: the student of a successful result is an entry of the gallery at
\* the minimum distance from the query over the whole gallery, and the id
\* and the name of the result are that entry's.
C23_NearestEntryReturned ==
    (last_result # NoResult /\ last_result.success) =>
        /\ \E i \in DOMAIN web_known_students :
               /\ web_known_students[i] = last_result.student
               /\ Abs(Embedding(web_known_students[i]) - image.q)
                      = MinDistance(web_known_students, image.q)
        /\ last_result.student_id = last_result.student
        /\ last_result.student_name = last_result.student

\* C23 witness: the first student is within the tolerance, the second is
\* nearer, and the second is returned.
C23_NearerSecondEntry ==
    /\ last_result # NoResult
    /\ last_result.success
    /\ last_result.student = 2
    /\ web_known_students[1] = 1
    /\ Abs(Embedding(1) - image.q) <= self_tolerance
    /\ Abs(Embedding(1) - image.q) > Abs(Embedding(2) - image.q)

C25_FirstOfTiedEntries ==
    (ReachedMatching /\ last_result.success) =>
        LET nearest ==
                {i \in DOMAIN web_known_students :
                    Abs(Embedding(web_known_students[i]) - image.q)
                        = MinDistance(web_known_students, image.q)}
        IN  \E i \in nearest :
                /\ \A j \in nearest : i <= j
                /\ last_result.student = web_known_students[i]

\* C25 witness: the query lies halfway between the first two students,
\* both in the gallery, and the call succeeded.
C25_TieBetweenTwo ==
    /\ ReachedMatching
    /\ last_result.success
    /\ Len(web_known_students) >= 2
    /\ Abs(Embedding(web_known_students[1]) - image.q)
           = Abs(Embedding(web_known_students[2]) - image.q)

\* ---------------------------------------- reading a ConnectionManager call

\* Both handles absent and both flags down.
Clean == Conn("none", FALSE, "none", FALSE)

\* C26: connect_camera returns ok with camera_ok true exactly when the
\* device opened and the test capture yielded a frame; in every other
\* case, an exception included, it returns false with a message and
\* camera_ok is false.
C26_ConnectNeedsOpenAndCapture ==
    /\ [](last_call.op = "connect_camera" =>
              /\ last_call.ret[1] <=> camera_ok
              /\ last_call.ret[1] => camera = "open"
              /\ last_call.ret[2] # ""
              /\ ~last_call.raised)
    /\ [][\A outcome \in CameraOutcomes :
              ConnectCamera(outcome) =>
                  /\ camera_ok' <=> outcome = "frame"
                  /\ last_call'.ret[1] <=> outcome = "frame"]_vars

\* C26 witness: a healthy camera was reconnected, the device opened, and
\* the test capture yielded no frame.
C26_OpenedButNoFrame ==
    /\ last_call.op = "connect_camera"
    /\ last_call.before.camera_ok
    /\ last_call.ret = <<FALSE, "Camera opened but cannot capture">>
    /\ camera = "open"
    /\ ~camera_ok

\* C27: capture_frame never raises; while camera_ok is false it returns
\* none without reading the device; whenever it returns none camera_ok is
\* false afterwards, and a read that fails or raises returns none.  After
\* connect_camera returned 'Camera cannot be opened' camera_ok is false,
\* so every capture returns none.
C27_CaptureReturnsNone ==
    /\ [](/\ last_call.op = "capture_frame" =>
                 /\ ~last_call.raised
                 /\ ~last_call.before.camera_ok =>
                        last_call.ret = "none" /\ ~last_call.io
                 /\ last_call.ret = "none" => ~camera_ok
                 /\ last_call.ret = "frame" => last_call.io /\ camera_ok
          /\ (/\ last_call.op = "connect_camera"
              /\ last_call.ret[2] = "Camera cannot be opened") => ~camera_ok)
    /\ [][\A outcome \in {"raise", "no_frame"} :
              CaptureFrame(outcome) =>
                  last_call'.ret = "none" /\ ~camera_ok']_vars

\* C27 witness: a capture after a connect that could not open the device.
C27_CaptureAfterFailedOpen ==
    /\ last_call.op = "capture_frame"
    /\ last_call.before.camera = "closed"
    /\ ~last_call.before.camera_ok
    /\ last_call.ret = "none"

\* C28: a health flag is true only if the latest connect, probe or I/O
\* operation on its device succeeded, and a call on one device leaves the
\* other device's handle and flag as they were.
C28_FlagsFollowLatestOperation ==
    /\ [](/\ camera_ok => last_ok["CAMERA"]
          /\ arduino_ok => last_ok["ARDUINO"])
    /\ [][/\ last_call'.device = "CAMERA" =>
                 arduino' = arduino /\ arduino_ok' = arduino_ok
          /\ last_call'.device = "ARDUINO" =>
                 camera' = camera /\ camera_ok' = camera_ok]_vars

\* C28 witness: a write to a healthy controller failed and cleared its
\* flag while the camera stayed healthy.
C28_WriteFailedCameraHealthy ==
    /\ last_call.op = "send_command"
    /\ last_call.io
    /\ last_call.before.arduino_ok
    /\ ~arduino_ok
    /\ camera_ok
    /\ camera = "open"

\* C29: after cleanup both handles are absent and both flags are false, and
\* nothing was raised, whatever the state it was called in: connected,
\* never connected, already cleaned up, or with a release that raises.
C29_CleanupIdempotent ==
    /\ last_call.op = "cleanup" =>
           /\ Before = Clean
           /\ ~last_call.raised
    /\ (last_call.op = "cleanup" /\ last_call.before = Clean) => ~last_call.io

\* C29 witness: cleanup of two healthy devices whose releases both raised.
C29_BothReleasesRaised ==
    /\ last_call.op = "cleanup"
    /\ last_call.ret = <<TRUE, TRUE>>
    /\ last_call.before = Conn("open", TRUE, "open", TRUE)

\* C30: a read_arduino call does not wait for the device, does not raise,
\* and returns none of the four echo lines.
C30_ReadNeverBlocks ==
    last_call.op = "read_arduino" =>
        /\ ~last_call.blocked
        /\ ~last_call.raised
        /\ last_call.ret \notin EchoLines

\* C31: in the multi-face flow a face matched within tolerance gets one
\* status decided by the state before it is handled: 'cooldown' when the
\* student was handled less than ATTENDANCE_COOLDOWN seconds before,
\* 'already' when past the cooldown with a 'success' row of the current
\* day, 'marked' when past the cooldown with no such row; a row is written
\* exactly with 'marked', and the student's cooldown timestamp is set to the
\* current time exactly with 'marked' and 'already'.
C31_StatusByCooldownAndDay ==
    [][\A q \in Queries :
          (LiveFace(q) /\ detected_face'.student # None) =>
              LET s == detected_face'.student
                  past_cooldown ==
                      now - recent_attendance[s] >= ATTENDANCE_COOLDOWN
                  had == ExistsSuccess(attendance, s, Day(now))
                  status == IF ~past_cooldown THEN "cooldown"
                            ELSE IF had THEN "already"
                            ELSE "marked"
              IN  /\ detected_face'.status = status
                  /\ attendance' =
                         IF status = "marked"
                         THEN CreateAttendance(attendance, s, now,
                                               "Camera Attendance")
                         ELSE attendance
                  /\ recent_attendance' =
                         IF status = "cooldown"
                         THEN recent_attendance
                         ELSE [recent_attendance EXCEPT ![s] = now]]_vars

\* Positions in trace of the entries appended to the system log.
LogEntries == {i \in DOMAIN trace : trace[i].op = "log_system"}

\* C32: a motion event that ended with a grant or a denial appended
\* exactly one entry to the system log, in both scripts.
C32_OneLogEntryPerOutcome ==
    (state = "AwaitingMotion" /\ Decisions # {})
        => Cardinality(LogEntries) = 1

\* C33: every recognition call on a service, through recognize_face or
\* through the multi-face loop, adds one to the total attempts of the stats
\* accessor and one to its successes exactly when the call matched, and a
\* recognize_face call leaves its latency as the last latency.
C33_StatsCountEveryCall ==
    [][/\ \A frame \in StatFrames :
              recognize_again(frame) =>
                  /\ get_performance_stats'.total_recognitions =
                         get_performance_stats.total_recognitions + 1
                  /\ get_performance_stats'.successful_recognitions =
                         get_performance_stats.successful_recognitions
                             + (IF last_result'.success THEN 1 ELSE 0)
                  /\ get_performance_stats'.last_recognition_time_ms =
                         elapsed_time(last_result')
       /\ \A q \in Queries :
              LiveFace(q) =>
                  /\ get_performance_stats'.total_recognitions =
                         get_performance_stats.total_recognitions + 1
                  /\ get_performance_stats'.successful_recognitions =
                         get_performance_stats.successful_recognitions
                             + (IF detected_face'.student # None THEN 1 ELSE 0)
      ]_vars

\* The effects a step appended to trace.
Appended == SubSeq(trace', Len(trace) + 1, Len(trace'))

\* C34: a grant whose attendance write fails calls save_attendance once,
\* which returns false, writes no row and logs one 'Attendance error'
\* entry, and the handler ends in AwaitingMotion; a grant or a denial
\* whose log write fails ends in AwaitingMotion as well.
C34_FailedWriteLoggedOnce ==
    [][/\ \A writeOk, logOk \in BOOLEAN :
              Grant(writeOk, FALSE, logOk) =>
                  LET saves == {i \in DOMAIN Appended :
                                    Appended[i].op = "save_attendance"}
                      errors == {i \in DOMAIN Appended :
                                    /\ Appended[i].op = "log_system"
                                    /\ Appended[i].cmd = "error:Attendance error"}
                  IN  /\ Cardinality(saves) = 1
                      /\ \A i \in saves : ~Appended[i].ok
                      /\ Cardinality(errors) = 1
                      /\ \A j \in errors : \A i \in saves : i < j
                      /\ attendance' = attendance
                      /\ state' = "AwaitingMotion"
       /\ \A writeOk, dbOk \in BOOLEAN :
              Grant(writeOk, dbOk, FALSE) => state' = "AwaitingMotion"
       /\ \A writeOk, imwriteOk \in BOOLEAN :
              Deny(writeOk, imwriteOk, FALSE) => state' = "AwaitingMotion"
      ]_vars

\* C34 witness: a grant has ended in AwaitingMotion after the attendance
\* write failed and the write of its error log entry failed too.
C34_WriteAndLogBothFailed ==
    /\ state = "AwaitingMotion"
    /\ \E i, j \in DOMAIN trace :
           /\ i < j
           /\ trace[i].op = "save_attendance" /\ trace[i].cmd = "error"
           /\ trace[j].op = "log_system"
           /\ trace[j].cmd = "error:Attendance error"
           /\ ~trace[j].ok

\* C38: in the multi-face flow every face matched within
\* RECOGNITION_TOLERANCE has a confidence of at least MIN_CONFIDENCE and
\* never the status 'low_conf', and a face of a student past the cooldown
\* with no 'success' row on the day the loop queries is marked.
C38_NeverLowConfidence ==
    /\ [](/\ detected_face.status # "low_conf"
          /\ detected_face.student # None =>
                 detected_face.confidence >= MIN_CONFIDENCE)
    /\ [][\A q \in AllQueries :
              (/\ LiveFace(q)
               /\ detected_face'.student # None
               /\ now - recent_attendance[detected_face'.student]
                      >= ATTENDANCE_COOLDOWN
               /\ ~ExistsSuccess(attendance, detected_face'.student, today))
                  => /\ detected_face'.status = "marked"
                     /\ attendance' # attendance]_vars

\* C38 witness: a face at exactly RECOGNITION_TOLERANCE from its nearest
\* entry, the lowest confidence a match can have, was marked.
C38_MarkedAtLowestConfidence ==
    /\ detected_face.student # None
    /\ detected_face.confidence = 100 - RECOGNITION_TOLERANCE
    /\ detected_face.status = "marked"

\* C40: whenever no load is in progress, the four cache lists have the
\* same length, and at each position the name, the id and the student are
\* those of one student and the encoding is the mean of that student's
\* encodings.
C40_ListsAligned ==
    load_pc = "idle" =>
        /\ Len(known_face_names) = Len(known_face_encodings)
        /\ Len(known_face_ids) = Len(known_face_encodings)
        /\ Len(known_student_objs) = Len(known_face_encodings)
        /\ \A i \in DOMAIN known_face_encodings :
               /\ known_face_ids[i] \in Students
               /\ known_face_names[i] = known_face_ids[i]
               /\ known_student_objs[i] = known_face_ids[i]
               /\ known_face_encodings[i] = Embedding(known_face_ids[i])

\* C40 witness: a load has returned that reported the first student's
\* undecodable blob, passed over it and loaded the last student.
C40_LoadedPastCorruptBlob ==
    /\ load_pc = "idle"
    /\ load_ret = 1
    /\ reports = <<1>>
    /\ known_face_ids = <<NumStudents>>
    /\ students[1] = "active"
    /\ ~face_encoding[1].ok

\* C36: when initialize has failed and run has returned, neither the
\* camera nor the controller is held open.
C36_FailedInitializeReleases ==
    state = "InitFailed" => (camera # "open" /\ arduino # "open")


\* C35: in a simulation session that runs without a controller, every
\* actuator command issued during a motion event is reported as a simulated
\* command: its send_command effect directly follows a "simulated" effect
\* of the same command, and nothing is written to a device.
C35_CommandsSimulated ==
    (simulation /\ state \notin {"Idle", "Stopped"} /\ arduino = "none")
        => \A i \in DOMAIN trace :
               /\ trace[i].op # "serial_write"
               /\ trace[i].op = "send_command"
                      => /\ i > 1
                         /\ trace[i - 1].op = "simulated"
                         /\ trace[i - 1].cmd = trace[i].cmd

\* C39: in a simulation session, the step that ends a motion event in
\* Granting leaves the banner reading ACCESS GRANTED, and the step that ends
\* it in Denying leaves it reading ACCESS DENIED.
C39_BannerMatchesOutcome ==
    [][(simulation /\ state' = "AwaitingMotion")
          => /\ state = "Granting" => banner' = "ACCESS GRANTED"
             /\ state = "Denying" => banner' = "ACCESS DENIED"]_vars


\* ------------------------------------------- the frame loops of door_system

\* The loops that pull frames through capture_frame, and those of them that
\* probe the camera every CONNECTION_CHECK_INTERVAL seconds.
Loops == {"simulation", "quick_test", "live_view", "live_attendance"}
CheckedLoops == {"simulation", "live_attendance"}

\* The longest wait of waitKey in a no-frame branch, the unit of time here.
HalfSecond == 500

\* What the no-frame branch of a loop waits for a key, in milliseconds:
\* waitKey(500) in the simulation and in live attendance, waitKey(1000) in
\* the quick test, and nothing in the live view, which continues at once.
NoFrameWait(kind) ==
    IF kind = "quick_test" THEN 2 * HalfSecond
    ELSE IF kind = "live_view" THEN 0
    ELSE HalfSecond

\* The clock of the connection check, read only up to the interval.
Elapsed(ms) ==
    IF since_check + ms >= CONNECTION_CHECK_INTERVAL * 1000
    THEN CONNECTION_CHECK_INTERVAL * 1000
    ELSE since_check + ms

\* What a loop step leaves alone.
LoopFrame ==
    /\ UNCHANGED <<script, arduino, arduino_ok, attempt, recognized, trace,
                   known_students>>
    /\ UNCHANGED <<storeVars, liveVars, now, save_calls, svcVars>>
    /\ UNCHANGED <<shutdown, pending, pause_trace, simulation, system_log,
                   banner>>

\* The loop is left: the finally clause releases the camera.
LoopEnds ==
    /\ state' = "Stopped"
    /\ camera' = release_camera(camera, FALSE).camera
    /\ camera_ok' = release_camera(camera, FALSE).camera_ok
    /\ reconnect_attempt' = 0

\* The start of simulation mode, quick_test, live_view or
\* live_camera_attendance: the camera is connected and the loop entered, or
\* the function returns.
loop_start(kind, outcome) ==
    /\ state = "Idle"
    /\ loop = "none"
    /\ simulation <=> kind = "simulation"
    /\ LET r == ConnectionManager_connect_camera(camera, outcome)
       IN  /\ camera' = r.camera
           /\ camera_ok' = r.camera_ok
           /\ state' = IF r.ok THEN "LoopTop" ELSE "InitFailed"
    /\ loop' = kind
    /\ since_check' = 0
    /\ UNCHANGED <<last_frame, reconnect_attempt>>
    /\ LoopFrame

\* The top of an iteration of a loop that checks the camera, the check
\* being due: check_camera probes; a failed probe starts the reconnect
\* attempts.
LoopCheck(outcome) ==
    /\ state = "LoopTop"
    /\ loop \in CheckedLoops
    /\ since_check >= CONNECTION_CHECK_INTERVAL * 1000
    /\ LET c == ConnectionManager_check_camera(camera, outcome)
       IN  /\ camera_ok' = c.camera_ok
           /\ state' = IF c.camera_ok THEN "Capturing" ELSE "Reconnecting"
           /\ since_check' = IF c.camera_ok THEN 0 ELSE since_check
    /\ UNCHANGED <<camera, last_frame, reconnect_attempt, loop>>
    /\ LoopFrame

\* One attempt of the reconnect loop: connect_camera; a success resumes the
\* iteration, the last failure leaves the loop.
LoopReconnect(outcome) ==
    /\ state = "Reconnecting"
    /\ LET r == ConnectionManager_connect_camera(camera, outcome)
       IN  IF r.ok
           THEN /\ camera' = r.camera
                /\ camera_ok' = r.camera_ok
                /\ state' = "Capturing"
                /\ reconnect_attempt' = 0
                /\ since_check' = 0
           ELSE IF reconnect_attempt + 1 < MAX_RECONNECT_ATTEMPTS
           THEN /\ camera' = r.camera
                /\ camera_ok' = r.camera_ok
                /\ reconnect_attempt' = reconnect_attempt + 1
                /\ UNCHANGED <<state, since_check>>
           ELSE /\ LoopEnds
                /\ UNCHANGED since_check
    /\ UNCHANGED <<last_frame, loop>>
    /\ LoopFrame

\* The top of an iteration with no check: the loop has none, or it is not
\* due yet.
LoopNoCheck ==
    /\ state = "LoopTop"
    /\ loop \in CheckedLoops => since_check < CONNECTION_CHECK_INTERVAL * 1000
    /\ state' = "Capturing"
    /\ UNCHANGED <<camera, camera_ok, last_frame, reconnect_attempt, loop,
                   since_check>>
    /\ LoopFrame

\* The rest of the iteration: capture_frame; with no frame the error screen
\* is shown and a key awaited (the live view continues at once), q leaving
\* the loop; with a frame the window is drawn, busy telling that the
\* iteration took half a second, and q leaves the loop.
LoopCapture(outcome, key, busy) ==
    /\ state = "Capturing"
    /\ LET r == capture_frame(camera, camera_ok, outcome)
           quit == key = "q" /\ (r.ret = "frame" \/ loop # "live_view")
       IN  /\ last_frame' = r.ret
           /\ IF quit
              THEN LoopEnds
              ELSE /\ state' = "LoopTop"
                   /\ camera_ok' = r.camera_ok
                   /\ UNCHANGED <<camera, reconnect_attempt>>
           /\ since_check' =
                  IF loop \notin CheckedLoops THEN since_check
                  ELSE IF r.ret = "none" THEN Elapsed(NoFrameWait(loop))
                  ELSE IF busy THEN Elapsed(HalfSecond)
                  ELSE since_check
    /\ UNCHANGED loop
    /\ LoopFrame

\* The steps a running loop takes by itself, no key being pressed.
LoopStep ==
    \/ \E outcome \in {"raise", "no_frame", "frame"} : LoopCheck(outcome)
    \/ \E outcome \in CameraOutcomes : LoopReconnect(outcome)
    \/ LoopNoCheck
    \/ \E outcome \in {"raise", "no_frame", "frame"}, busy \in BOOLEAN :
           LoopCapture(outcome, "none", busy)

NextLoops ==
    \/ \E kind \in Loops, outcome \in CameraOutcomes : loop_start(kind, outcome)
    \/ \E outcome \in {"raise", "no_frame", "frame"} : LoopCheck(outcome)
    \/ \E outcome \in CameraOutcomes : LoopReconnect(outcome)
    \/ LoopNoCheck
    \/ \E outcome \in {"raise", "no_frame", "frame"}, key \in {"none", "q"},
          busy \in BOOLEAN : LoopCapture(outcome, key, busy)

InitLoops ==
    /\ Constructed
    /\ script = "door_system"
    /\ simulation \in BOOLEAN
    /\ students = [s \in Students |-> "active"]

\* A running loop keeps executing its statements; nobody has to press a
\* key.
SpecLoops == InitLoops /\ [][NextLoops]_vars /\ WF_vars(LoopStep)

\* C37: in every frame loop, whenever the camera is flagged unhealthy the
\* loop later has the camera healthy again, which only a probe or a
\* reconnect that read a frame brings about, or has ended.
C37_NoFrameLoopRecoversOrEnds ==
    (state \in {"LoopTop", "Capturing", "Reconnecting"} /\ ~camera_ok)
        ~> (camera_ok \/ state = "Stopped")

=============================================================================
